---------------------------- MODULE Spec2Model ----------------------------
(***************************************************************************)
(* A model of the numerical evaluation engine of TS-ErrorsAnalysis:        *)
(*   - src/src/errors.py : compute_error_metrics (the metrics engine)      *)
(*   - src/api/batch.py  : batch_analyze, compare_runs, export_to_csv      *)
(*   - src/api/timeseries.py : the series transforms                       *)
(*                                                                         *)
(* Floating point.  A float is <<kind, num, den>>: kind "fin" is the exact *)
(* rational num/den (den > 0, lowest terms), "nan" is NaN and "inf" is     *)
(* +Inf (num = 1) or -Inf (num = -1).  Finite values are bounded by        *)
(* FloatMax, which stands for the largest finite double scaled down so     *)
(* that overflow is reachable with small inputs: a numpy operation whose   *)
(* result exceeds it yields +/-Inf, Python's float ** raises OverflowError.*)
(* Arithmetic on finite values is exact, except the square root, which is  *)
(* exact on perfect squares, and except that a result whose denominator    *)
(* exceeds DenMax is rounded to a multiple of 1/DenMax (the precision).    *)
(* Signed zeros and underflow are not distinguished.                       *)
(***************************************************************************)
EXTENDS Integers, Sequences, FiniteSets, TLC

VARIABLES
    emP,        \* compute_error_metrics: argument P (predicted)
    emT,        \* compute_error_metrics: argument T (target)
    emR,        \* compute_error_metrics: what the call returned or raised
    emPc,       \* "call" before the call, "done" after it
    baList,     \* batch_analyze: argument time_series_list
    baIdx,      \* batch_analyze: index of the item the loop is at (from 1)
    baResults,  \* batch_analyze: the list results
    baPc,       \* "idle", "loop" (in the for loop), "done" (returned), "raised"
    crResults,  \* compare_runs: argument results
    crMetrics,  \* compare_runs: argument metrics_to_compare
    crOut,      \* compare_runs: what the call returned
    crPc,       \* "idle", "call" before the call, "done" after it
    tsHeap,     \* series transforms: the arrays that exist, by reference (position)
    tsCall,     \* series transforms: the function called and its arguments
    tsR,        \* series transforms: what the call returned or raised
    tsPc,       \* "idle", "call" before the call, "done" after it
    exResults,  \* export_to_csv: argument results
    exHeader,   \* export_to_csv: argument include_header
    exOut,      \* export_to_csv: the rows written
    exPc,       \* "idle", "call" before the call, "done" after it
    seCall,     \* export_to_json / generate_summary_report / export_to_csv: the call repeated
    seNow,      \* the serializers' clock, datetime.utcnow(): <<second, microsecond>>
    seOuts,     \* what each call made so far returned or raised
    sePc,       \* "idle", "run"
    caStore,    \* cache: _memory_cache, the set of its items
    caNow,      \* cache: the timer of _memory_cache, in seconds
    caLast,     \* cache: the last operation and what it returned
    caOps,      \* cache: number of operations so far
    dbRecords,  \* database: the rows of analysis_records, in insertion order
    dbSessions, \* database: the rows of user_sessions, in insertion order
    apReqs,     \* service: the state of each request in progress or finished
    apNow,      \* service: the last reading of the clock, datetime.utcnow()
    apGet,      \* service: the last GET request and its response
    upFile,     \* upload: the bytes of the uploaded file
    upArgs,     \* upload: the function called and its arguments
    upOut,      \* upload: what the call returned
    upPc        \* "idle", "call" before the call, "done" after it

emVars == <<emP, emT, emR, emPc>>
baVars == <<baList, baIdx, baResults, baPc>>
crVars == <<crResults, crMetrics, crOut, crPc>>
tsVars == <<tsHeap, tsCall, tsR, tsPc>>
exVars == <<exResults, exHeader, exOut, exPc>>
seVars == <<seCall, seNow, seOuts, sePc>>
caVars == <<caStore, caNow, caLast, caOps>>
apVars == <<dbRecords, dbSessions, apReqs, apNow, apGet>>
upVars == <<upFile, upArgs, upOut, upPc>>
svcVars == <<seVars, caVars, apVars, upVars>>

vars == <<emP, emT, emR, emPc, baList, baIdx, baResults, baPc,
          crResults, crMetrics, crOut, crPc, tsHeap, tsCall, tsR, tsPc,
          exResults, exHeader, exOut, exPc, seCall, seNow, seOuts, sePc,
          caStore, caNow, caLast, caOps, dbRecords, dbSessions, apReqs, apNow, apGet,
          upFile, upArgs, upOut, upPc>>

----------------------------------------------------------------------------
(* Bounds of the model *)

MaxLen == 3         \* longest input series
FloatMax == 100     \* scaled stand-in for the largest finite double
DenMax == 256       \* largest denominator kept exactly (the precision)
BigVal == 12        \* an input whose square exceeds FloatMax
MaxBatch == 3       \* longest list given to batch_analyze
MaxRuns == 3        \* longest list given to compare_runs

----------------------------------------------------------------------------
(* Floats *)

NaN  == <<"nan", 0, 1>>
PInf == <<"inf", 1, 1>>
NInf == <<"inf", -1, 1>>

AbsInt(i) == IF i < 0 THEN -i ELSE i

RECURSIVE GCD(_, _)
GCD(a, b) == IF b = 0 THEN a ELSE GCD(b, a % b)

\* The float of sign sg and magnitude m/DenMax (m > 0, g the common divisor).
OnGrid(sg, m, g) == <<"fin", sg * (m \div g), DenMax \div g>>

\* The multiple of 1/DenMax nearest rn/rd, and never zero: a nonzero result of
\* ordinary magnitude stays nonzero.
Rounded(sg, m) == IF m = 0 THEN OnGrid(sg, 1, 1) ELSE OnGrid(sg, m, GCD(m, DenMax))

\* The float of sign sg nearest the rational rn/rd in lowest terms (rn >= 0, rd > 0):
\* +/-Inf beyond FloatMax, exact when rd is at most DenMax, else rounded to the
\* nearest multiple of 1/DenMax.
Nearest(sg, rn, rd) ==
    IF rn > FloatMax * rd THEN <<"inf", sg, 1>>
    ELSE IF rd <= DenMax THEN <<"fin", sg * rn, rd>>
    ELSE Rounded(sg, (rn \div rd) * DenMax + (2 * (rn % rd) * DenMax + rd) \div (2 * rd))

Lowest(sg, an, ad, g) == Nearest(sg, an \div g, ad \div g)

\* The float nearest the rational n/d (d # 0).
Mk(n, d) ==
    Lowest(IF (n < 0) # (d < 0) THEN -1 ELSE 1, AbsInt(n), AbsInt(d),
           GCD(AbsInt(n), AbsInt(d)))

F(i) == Mk(i, 1)

IsNaN(x)    == x[1] = "nan"
IsInf(x)    == x[1] = "inf"
IsFinite(x) == x[1] = "fin"      \* np.isfinite
Sign(x)     == IF x[2] > 0 THEN 1 ELSE IF x[2] < 0 THEN -1 ELSE 0
IsZero(x)   == IsFinite(x) /\ x[2] = 0

FNeg(x) == IF IsNaN(x) THEN NaN ELSE <<x[1], -x[2], x[3]>>

FAbs(x) == IF IsNaN(x) THEN NaN ELSE <<x[1], AbsInt(x[2]), x[3]>>

FAdd(x, y) ==
    IF IsNaN(x) \/ IsNaN(y) THEN NaN
    ELSE IF IsInf(x) /\ IsInf(y) THEN (IF x = y THEN x ELSE NaN)
    ELSE IF IsInf(x) THEN x
    ELSE IF IsInf(y) THEN y
    ELSE Mk(x[2] * y[3] + y[2] * x[3], x[3] * y[3])

FSub(x, y) == FAdd(x, FNeg(y))

FMul(x, y) ==
    IF IsNaN(x) \/ IsNaN(y) THEN NaN
    ELSE IF IsInf(x) \/ IsInf(y)
         THEN (IF Sign(x) * Sign(y) = 0 THEN NaN
               ELSE IF Sign(x) * Sign(y) > 0 THEN PInf ELSE NInf)
    ELSE Mk(x[2] * y[2], x[3] * y[3])

\* IEEE division (numpy's; Python's / agrees whenever the divisor is not 0).
FDiv(x, y) ==
    IF IsNaN(x) \/ IsNaN(y) THEN NaN
    ELSE IF IsInf(x) /\ IsInf(y) THEN NaN
    ELSE IF IsInf(y) THEN F(0)
    ELSE IF IsInf(x) THEN (IF Sign(x) * Sign(y) < 0 THEN NInf ELSE PInf)
    ELSE IF IsZero(y)
         THEN (IF IsZero(x) THEN NaN ELSE IF Sign(x) > 0 THEN PInf ELSE NInf)
    ELSE Mk(x[2] * y[3], x[3] * y[2])

\* x < y, x > y, x <= y on floats: every comparison with NaN is false.
FLt(x, y) ==
    IF IsNaN(x) \/ IsNaN(y) THEN FALSE
    ELSE IF IsInf(x) THEN x = NInf /\ y # NInf
    ELSE IF IsInf(y) THEN y = PInf
    ELSE x[2] * y[3] < y[2] * x[3]

FGt(x, y) == FLt(y, x)

FLe(x, y) == ~IsNaN(x) /\ ~IsNaN(y) /\ ~FLt(y, x)

RECURSIVE ISqrtR(_, _, _)
ISqrtR(m, lo, hi) ==
    IF lo >= hi THEN lo
    ELSE LET mid == (lo + hi + 1) \div 2
         IN  IF mid * mid <= m THEN ISqrtR(m, mid, hi) ELSE ISqrtR(m, lo, mid - 1)

\* floor(sqrt(m)) for m >= 0
ISqrt(m) == ISqrtR(m, 0, IF m < 46340 THEN m ELSE 46340)

\* np.sqrt / math.sqrt on a non-negative argument (the only ones the code passes)
FSqrt(x) ==
    IF IsNaN(x) THEN NaN
    ELSE IF IsInf(x) THEN (IF x = PInf THEN PInf ELSE NaN)
    ELSE IF x[2] < 0 THEN NaN
    ELSE LET rn == ISqrt(x[2])
             rd == ISqrt(x[3])
         IN  IF rn * rn = x[2] /\ rd * rd = x[3] THEN Mk(rn, rd)
             ELSE LET r == ISqrt((x[2] * DenMax * DenMax) \div x[3])
                  IN  Mk(IF r = 0 THEN 1 ELSE r, DenMax)

\* Python's float ** 2 raises OverflowError when a finite base overflows.
PowOverflows(x) == IsFinite(x) /\ IsInf(FMul(x, x))

PyPow2(x) == FMul(x, x)

----------------------------------------------------------------------------
(* numpy array helpers (arrays are sequences of floats) *)

RECURSIVE NpSumR(_, _)
NpSumR(a, k) == IF k = 0 THEN F(0) ELSE FAdd(NpSumR(a, k - 1), a[k])

NpSum(a) == NpSumR(a, Len(a))                       \* np.sum

NpMean(a) == FDiv(NpSum(a), F(Len(a)))              \* np.mean

VSub(a, b)  == [i \in 1..Len(a) |-> FSub(a[i], b[i])]   \* a - b
VSubS(a, c) == [i \in 1..Len(a) |-> FSub(a[i], c)]      \* a - scalar
VAdd(a, b)  == [i \in 1..Len(a) |-> FAdd(a[i], b[i])]   \* a + b
VMul(a, b)  == [i \in 1..Len(a) |-> FMul(a[i], b[i])]   \* a * b
VDiv(a, b)  == [i \in 1..Len(a) |-> FDiv(a[i], b[i])]   \* a / b
VSq(a)      == [i \in 1..Len(a) |-> FMul(a[i], a[i])]   \* a ** 2
VAbs(a)     == [i \in 1..Len(a) |-> FAbs(a[i])]         \* np.abs
VScale(c, a) == [i \in 1..Len(a) |-> FMul(c, a[i])]     \* scalar * a

\* np.std(a, ddof=0): sqrt(mean(abs(a - mean(a)) ** 2))
NpStd(a) == FSqrt(NpMean(VSq(VAbs(VSubS(a, NpMean(a))))))

\* The indices i of 1..n with keep[i], ascending.
RECURSIVE MaskIdxR(_, _)
MaskIdxR(keep, k) ==
    IF k = 0 THEN <<>>
    ELSE IF keep[k] THEN Append(MaskIdxR(keep, k - 1), k)
    ELSE MaskIdxR(keep, k - 1)

\* a[mask]: boolean-mask indexing
Take(a, keep) ==
    LET idx == MaskIdxR(keep, Len(a))
    IN  [k \in 1..Len(idx) |-> a[idx[k]]]

\* np.sum(cond) for a boolean array
CountTrue(b) == Cardinality({i \in 1..Len(b) : b[i]})

----------------------------------------------------------------------------
(* src/src/errors.py *)

\* Mutant of safe_div: a zero divisor gives +Inf.
safe_div_inf(a, b) == IF IsZero(b) THEN PInf ELSE FDiv(a, b)

\* _safe_div(a, b): a / b if b not in (0.0, -0.0) else math.nan
safe_div(a, b) == IF IsZero(b) THEN NaN ELSE FDiv(a, b)

\* Mutant of PairMask: only the predicted value is tested.
PairMaskPredictedOnly(P, T) == [i \in 1..Len(P) |-> IsFinite(P[i])]

\* mask = np.isfinite(P) & np.isfinite(T)
PairMask(P, T) == [i \in 1..Len(P) |-> IsFinite(P[i]) /\ IsFinite(T[i])]

\* The messages of the two ValueErrors; args are the values formatted into the text.
MsgSameLength == [text |-> "P and T must have the same length.", args |-> <<>>]
MsgTooFew == [text |-> "Need at least 2 paired values after removing NaNs/Infs.",
              args |-> <<>>]
MsgOverflow == [text |-> "(34, 'Numerical result out of range')", args |-> <<>>]

Raise(exc, msg) == [kind |-> "raise", exc |-> exc, msg |-> msg]

\* Mutant of Residual: the sign convention reversed.
ResidualSwapped(P, T) == VSub(P, T)

\* Er = T - P (line 121)
Residual(P, T) == VSub(T, P)

\* The metrics of the retained pairs P, T (n >= 2): lines 64-132.
MetricsOf(P, T) ==
    LET n == Len(P)
        MuT == NpMean(T)
        MuP == NpMean(P)
        StdT == NpStd(T)
        StdP == NpStd(P)
        resid == VSub(P, T)
        SSE == NpSum(VSq(resid))
        RMSE == FSqrt(FDiv(SSE, F(n)))
        MAE == NpMean(VAbs(resid))
        NRMSE == FMul(F(100), safe_div(RMSE, StdT))
        devT == VSubS(T, MuT)
        devP == VSubS(P, MuP)
        denom_nsc == NpSum(VSq(devT))
        NSC == FSub(F(1), safe_div(SSE, denom_nsc))
        num_cor == NpSum(VMul(devP, devT))
        den_cor == FSqrt(FMul(NpSum(VSq(devP)), NpSum(VSq(devT))))
        Cor == safe_div(num_cor, den_cor)
        R2 == IF IsFinite(Cor) THEN PyPow2(Cor) ELSE NaN
        nz == [i \in 1..n |-> FGt(FAbs(T[i]), F(0))]
        Tnz == Take(T, nz)
        Pnz == Take(P, nz)
        MARE == IF \E i \in 1..n : nz[i]
                THEN NpMean(VAbs(VDiv(VSub(Tnz, Pnz), Tnz)))
                ELSE NaN
        T1 == SubSeq(T, 1, n - 1)
        T2 == SubSeq(T, 2, n)
        dT == VSub(T1, T2)
        SSEN == NpSum(VSq(dT))
        RMSEN == FSqrt(safe_div(SSEN, F(IF Len(T2) > 1 THEN Len(T2) ELSE 1)))
        StdT2 == NpStd(T2)
        NRMSEN == FMul(F(100), safe_div(RMSEN, StdT2))
        PERS == IF FGt(SSEN, F(0)) THEN FSub(F(1), safe_div(SSE, SSEN)) ELSE NaN
        RSR == safe_div(RMSE, StdT)
        sumT == NpSum(T)
        PBIAS == IF FGt(FAbs(sumT), F(0))
                 THEN FMul(F(100), safe_div(NpSum(VSub(P, T)), sumT))
                 ELSE NaN
        denom == VAdd(VAbs(P), VAbs(T))
        good == [i \in 1..n |-> FGt(denom[i], F(0))]
        sMAPE == IF \E i \in 1..n : good[i]
                 THEN FMul(F(100),
                        NpMean(VDiv(VScale(F(2), VAbs(VSub(Take(P, good), Take(T, good)))),
                                    Take(denom, good))))
                 ELSE NaN
        r == Cor
        alpha == safe_div(StdP, StdT)
        beta == safe_div(MuP, MuT)
        r1 == FSub(r, F(1))
        a1 == FSub(alpha, F(1))
        b1 == FSub(beta, F(1))
        KGE2009 == FSub(F(1), FSqrt(FAdd(FAdd(PyPow2(r1), PyPow2(a1)), PyPow2(b1))))
        cvP == safe_div(StdP, MuP)
        cvT == safe_div(StdT, MuT)
        gamma == safe_div(cvP, cvT)
        g1 == FSub(gamma, F(1))
        KGE2012 == FSub(F(1), FSqrt(FAdd(FAdd(PyPow2(r1), PyPow2(g1)), PyPow2(b1))))
        spread == VAdd(VAbs(VSubS(P, MuT)), VAbs(VSubS(T, MuT)))
        denom_d == NpSum(VSq(spread))
        d == FSub(F(1), safe_div(SSE, denom_d))
        denom_d1 == NpSum(spread)
        d1 == FSub(F(1), safe_div(NpSum(VAbs(VSub(P, T))), denom_d1))
        Er == Residual(P, T)
        Po == FDiv(F(CountTrue([i \in 1..n |-> FLe(Er[i], F(0))])), F(Len(Er)))
        Pu == FDiv(F(CountTrue([i \in 1..n |-> FGt(Er[i], F(0))])), F(Len(Er)))
    IN  IF PowOverflows(r1) \/ PowOverflows(a1) \/ PowOverflows(b1) \/ PowOverflows(g1)
        THEN Raise("OverflowError", MsgOverflow)
        ELSE [kind |-> "ok",
              RMSE |-> RMSE, NSC |-> NSC, Cor |-> Cor, NRMSE |-> NRMSE, MAE |-> MAE,
              StdT |-> StdT, StdP |-> StdP, MuT |-> MuT, MuP |-> MuP,
              PERS |-> PERS, SSE |-> SSE, SSEN |-> SSEN, RMSEN |-> RMSEN,
              NRMSEN |-> NRMSEN, MARE |-> MARE, R2 |-> R2, RSR |-> RSR,
              PBIAS |-> PBIAS, sMAPE |-> sMAPE, KGE2009 |-> KGE2009,
              KGE2012 |-> KGE2012, d |-> d, d1 |-> d1, Er |-> Er, Po |-> Po, Pu |-> Pu]

\* compute_error_metrics(P, T): an ErrorMetrics record, or the exception raised.
compute_error_metrics(P, T) ==
    IF Len(P) # Len(T) THEN Raise("ValueError", MsgSameLength)
    ELSE LET mask == PairMask(P, T)
             Pf == Take(P, mask)
             Tf == Take(T, mask)
         IN  IF Len(Pf) < 2 THEN Raise("ValueError", MsgTooFew)
             ELSE MetricsOf(Pf, Tf)

----------------------------------------------------------------------------
(* src/api/batch.py: batch_analyze *)

\* A name is <<text, 0>>; the default f'Series_{idx+1}' is <<"Series_", idx+1>>.
Name(text) == <<text, 0>>
DefaultName(pos) == <<"Series_", pos>>

\* The keys of the 'metrics' dict of a result, in the order the dict literal lists them.
BatchMetricKeys == <<"RMSE", "NSC", "Cor", "NRMSE", "MAE", "R2", "RSR", "PBIAS", "sMAPE",
                     "KGE2009", "KGE2012", "d", "d1", "PERS", "MARE", "MuT", "MuP",
                     "StdT", "StdP", "Po", "Pu">>

KeySet(keys) == {keys[i] : i \in 1..Len(keys)}

MsgKeyError(key) == [text |-> "KeyError", args |-> <<key>>]
MsgLengthMismatch(lp, lt) ==
    [text |-> "Length mismatch: predicted({len(P)}) vs target({len(T)})", args |-> <<lp, lt>>]

Failure(name, msg) == [name |-> name, success |-> FALSE, error |-> msg]

\* ts_data.get('name', f'Series_{idx+1}'), pos = idx + 1
NameOf(ts_data, pos) ==
    IF "name" \in ts_data.keys THEN ts_data.name ELSE DefaultName(pos)

\* The body of the for loop for the item ts_data at position pos = idx + 1
\* (lines 44-98): the result appended, by the try block or by the except clause.
AnalyzeItem(ts_data, pos) ==
    IF "predicted" \notin ts_data.keys
    THEN Failure(NameOf(ts_data, pos), MsgKeyError("predicted"))
    ELSE IF "target" \notin ts_data.keys
    THEN Failure(NameOf(ts_data, pos), MsgKeyError("target"))
    ELSE LET P == ts_data.predicted
             T == ts_data.target
             name == NameOf(ts_data, pos)
         IN  IF Len(P) # Len(T)
             THEN Failure(name, MsgLengthMismatch(Len(P), Len(T)))
             ELSE LET metrics == compute_error_metrics(P, T)
                  IN  IF metrics.kind = "raise"
                      THEN Failure(name, metrics.msg)
                      ELSE [name |-> name,
                            success |-> TRUE,
                            n_points |-> Len(P),
                            metrics |-> [k \in KeySet(BatchMetricKeys) |-> metrics[k]]]

\* Mutant of BatchIter: no try/except, the exception of a failing item escapes.
BatchIterNoExcept ==
    /\ baPc = "loop"
    /\ baIdx <= Len(baList)
    /\ LET result == AnalyzeItem(baList[baIdx], baIdx)
       IN  IF result.success \/ result.error.text = MsgLengthMismatch(0, 0).text
           THEN /\ baResults' = Append(baResults, result)
                /\ baIdx' = baIdx + 1
                /\ UNCHANGED <<baList, baPc>>
           ELSE /\ baPc' = "raised"
                /\ UNCHANGED <<baList, baIdx, baResults>>

\* One iteration of `for idx, ts_data in enumerate(time_series_list)`.
BatchIter ==
    /\ baPc = "loop"
    /\ baIdx <= Len(baList)
    /\ baResults' = Append(baResults, AnalyzeItem(baList[baIdx], baIdx))
    /\ baIdx' = baIdx + 1
    /\ UNCHANGED <<baList, baPc>>

\* `return results` once the loop is exhausted.
BatchReturn ==
    /\ baPc = "loop"
    /\ baIdx > Len(baList)
    /\ baPc' = "done"
    /\ UNCHANGED <<baList, baIdx, baResults>>

----------------------------------------------------------------------------
(* Python dicts (insertion ordered) as sequences of <<key, value>> with distinct keys *)

DictHas(dct, k) == \E i \in 1..Len(dct) : dct[i][1] = k

DictGet(dct, k) == dct[CHOOSE i \in 1..Len(dct) : dct[i][1] = k][2]

\* dct[k] = v: a present key keeps its place and takes the new value
DictSet(dct, k, v) ==
    IF DictHas(dct, k)
    THEN [i \in 1..Len(dct) |-> IF dct[i][1] = k THEN <<k, v>> ELSE dct[i]]
    ELSE Append(dct, <<k, v>>)

DictKeys(dct) == [i \in 1..Len(dct) |-> dct[i][1]]

----------------------------------------------------------------------------
(* Python's sorted(items, key=lambda x: x[1], reverse=...) on a short list:       *)
(* CPython's list.sort takes the leading run and inserts the rest by binary       *)
(* insertion, comparing keys with <, which is false whenever a key is NaN.        *)

KeyLt(x, y) == FLt(x[2], y[2])

Reverse(a) == [i \in 1..Len(a) |-> a[Len(a) + 1 - i]]

\* Length of the leading run from position i (a[i-1], a[i] already in the run).
RECURSIVE RunEnd(_, _, _)
RunEnd(a, i, desc) ==
    IF i > Len(a) THEN Len(a)
    ELSE IF desc = KeyLt(a[i], a[i - 1]) THEN RunEnd(a, i + 1, desc)
    ELSE i - 1

\* Binary insertion of a[s], a[s+1], ... into the sorted prefix a[1..s-1].
RECURSIVE BinSearch(_, _, _, _)
BinSearch(a, pivot, lo, hi) ==
    IF lo >= hi THEN lo
    ELSE LET mid == lo + (hi - lo) \div 2
         IN  IF KeyLt(pivot, a[mid]) THEN BinSearch(a, pivot, lo, mid)
             ELSE BinSearch(a, pivot, mid + 1, hi)

RECURSIVE BinarySort(_, _)
BinarySort(a, s) ==
    IF s > Len(a) THEN a
    ELSE LET at == BinSearch(a, a[s], 1, s)
             b  == SubSeq(a, 1, at - 1) \o <<a[s]>> \o SubSeq(a, at, s - 1)
                   \o SubSeq(a, s + 1, Len(a))
         IN  BinarySort(b, s + 1)

ListSort(a) ==
    IF Len(a) < 2 THEN a
    ELSE LET desc == KeyLt(a[2], a[1])
             run  == RunEnd(a, 3, desc)
             b    == IF desc THEN Reverse(SubSeq(a, 1, run)) \o SubSeq(a, run + 1, Len(a))
                     ELSE a
         IN  BinarySort(b, run + 1)

\* Mutant of PySorted: reverse=True as a sort followed by a reversal.
PySortedThenReversed(items, reverse) ==
    IF reverse THEN Reverse(ListSort(items)) ELSE ListSort(items)

\* reverse=True reverses the list, sorts it, and reverses the result.
PySorted(items, reverse) ==
    IF reverse THEN Reverse(ListSort(Reverse(items))) ELSE ListSort(items)

----------------------------------------------------------------------------
(* src/api/batch.py: compare_runs *)

HasNaN(a) == \E i \in 1..Len(a) : IsNaN(a[i])

Indexed(a) == [i \in 1..Len(a) |-> <<i, a[i]>>]

\* The values of a in ascending order (a holds no NaN).
SortedValues(a) == LET srt == ListSort(Indexed(a)) IN [i \in 1..Len(a) |-> srt[i][2]]

NpMin(a) == IF HasNaN(a) THEN NaN ELSE SortedValues(a)[1]           \* np.min
NpMax(a) == IF HasNaN(a) THEN NaN ELSE SortedValues(a)[Len(a)]      \* np.max

NpMedian(a) ==                                                     \* np.median
    IF HasNaN(a) THEN NaN
    ELSE LET srt == SortedValues(a)
             h == Len(a) \div 2
         IN  IF Len(a) % 2 = 1 THEN srt[h + 1]
             ELSE NpMean(<<srt[h], srt[h + 1]>>)

HigherIsBetter == {"NSC", "Cor", "R2", "KGE2009", "KGE2012", "d", "d1", "PERS"}

\* Mutant of SuccessfulResults: no filter.
AllResults(results) == results

\* successful_results = [r for r in results if r.get('success')]
SuccessfulResults(results) == SelectSeq(results, LAMBDA r : r.success)

\* Lines 216-220: the values of metric_name, and series_values keyed by name.
RECURSIVE CollectValues(_, _, _)
CollectValues(successful, metric_name, k) ==
    IF k = 0 THEN [values |-> <<>>, series_values |-> <<>>]
    ELSE LET before == CollectValues(successful, metric_name, k - 1)
             result == successful[k]
         IN  IF DictHas(result.metrics, metric_name)
             THEN LET val == DictGet(result.metrics, metric_name)
                  IN  [values |-> Append(before.values, val),
                       series_values |-> DictSet(before.series_values, result.name, val)]
             ELSE before

\* Lines 226-234: the statistics of one metric.
MetricStats(values, series_values) ==
    [values |-> series_values,
     min |-> NpMin(values),
     max |-> NpMax(values),
     mean |-> NpMean(values),
     std |-> NpStd(values),
     median |-> NpMedian(values)]

\* Lines 238-249: the ranking of one metric.
MetricRanking(metric_name, series_values) ==
    LET higher_is_better == metric_name \in HigherIsBetter
        sorted_items == PySorted(series_values, higher_is_better)
        ranking == [i \in 1..Len(sorted_items) |->
                      [rank |-> i, name |-> sorted_items[i][1], value |-> sorted_items[i][2]]]
    IN  [higher_is_better |-> higher_is_better,
         ranking |-> ranking,
         best |-> ranking[1].name,
         worst |-> ranking[Len(ranking)].name]

\* The for loop of lines 212-249 over the first k metrics of metrics_to_compare.
RECURSIVE CompareLoop(_, _, _)
CompareLoop(successful, metrics_to_compare, k) ==
    IF k = 0 THEN [comparison_table |-> <<>>, rankings |-> <<>>]
    ELSE LET before == CompareLoop(successful, metrics_to_compare, k - 1)
             metric_name == metrics_to_compare[k]
             got == CollectValues(successful, metric_name, Len(successful))
         IN  IF got.values = <<>> THEN before
             ELSE [comparison_table |->
                      DictSet(before.comparison_table, metric_name,
                              MetricStats(got.values, got.series_values)),
                   rankings |->
                      DictSet(before.rankings, metric_name,
                              MetricRanking(metric_name, got.series_values))]

Diagnostic(text) == [kind |-> "error", error |-> text]

\* compare_runs(results, metrics_to_compare); metrics_to_compare is
\* [given |-> FALSE] for None.
compare_runs(results, mtc) ==
    IF results = <<>> THEN Diagnostic("No results to compare")
    ELSE LET successful_results == SuccessfulResults(results)
         IN  IF successful_results = <<>>
             THEN Diagnostic("No successful analyses to compare")
             ELSE LET metrics_to_compare ==
                          IF mtc.given THEN mtc.names
                          ELSE DictKeys(successful_results[1].metrics)
                      tables == CompareLoop(successful_results, metrics_to_compare,
                                            Len(metrics_to_compare))
                  IN  [kind |-> "comparison",
                       num_series |-> Len(successful_results),
                       series_names |-> [i \in 1..Len(successful_results) |->
                                            successful_results[i].name],
                       metrics_compared |-> metrics_to_compare,
                       comparison_table |-> tables.comparison_table,
                       rankings |-> tables.rankings]

CompareRuns ==
    /\ crPc = "call"
    /\ crOut' = compare_runs(crResults, crMetrics)
    /\ crPc' = "done"
    /\ UNCHANGED <<crResults, crMetrics>>

----------------------------------------------------------------------------
(* The engine called once on an arbitrary pair of series *)

SeqsUpTo(S, n) == UNION {[1..k -> S] : k \in 0..n}

PVals == {F(0), F(1), F(BigVal), NaN}
TVals == {F(0), F(1), F(BigVal), PInf}

NoResult == [kind |-> "none"]

EmIdle ==
    /\ emP = <<>>
    /\ emT = <<>>
    /\ emR = NoResult
    /\ emPc = "idle"

BaIdle ==
    /\ baList = <<>>
    /\ baIdx = 0
    /\ baResults = <<>>
    /\ baPc = "idle"

CrIdle ==
    /\ crResults = <<>>
    /\ crMetrics = [given |-> FALSE, names |-> <<>>]
    /\ crOut = NoResult
    /\ crPc = "idle"

TsIdle ==
    /\ tsHeap = <<>>
    /\ tsCall = [fn |-> "none"]
    /\ tsR = NoResult
    /\ tsPc = "idle"

ExIdle ==
    /\ exResults = <<>>
    /\ exHeader = FALSE
    /\ exOut = <<>>
    /\ exPc = "idle"

SeIdle ==
    /\ seCall = [fn |-> "none"]
    /\ seNow = <<0, 0>>
    /\ seOuts = <<>>
    /\ sePc = "idle"

CaIdle ==
    /\ caStore = {}
    /\ caNow = 0
    /\ caLast = [op |-> "none"]
    /\ caOps = 0

ApIdle ==
    /\ dbRecords = <<>>
    /\ dbSessions = <<>>
    /\ apReqs = <<>>
    /\ apNow = 0
    /\ apGet = [kind |-> "none"]

UpIdle ==
    /\ upFile = <<>>
    /\ upArgs = [fn |-> "none"]
    /\ upOut = NoResult
    /\ upPc = "idle"

SvcIdle == SeIdle /\ CaIdle /\ ApIdle /\ UpIdle

EmInit ==
    /\ emP \in SeqsUpTo(PVals, MaxLen)
    /\ emT \in SeqsUpTo(TVals, MaxLen)
    /\ emR = NoResult
    /\ emPc = "call"
    /\ BaIdle
    /\ CrIdle
    /\ TsIdle
    /\ ExIdle
    /\ SvcIdle

ComputeErrorMetrics ==
    /\ emPc = "call"
    /\ emR' = compute_error_metrics(emP, emT)
    /\ emPc' = "done"
    /\ UNCHANGED <<emP, emT>>
    /\ UNCHANGED <<baVars, crVars, tsVars, exVars, svcVars>>

SpecMetrics == EmInit /\ [][ComputeErrorMetrics]_vars

----------------------------------------------------------------------------
(* batch_analyze called on an arbitrary list of items *)

FSeq(q) == [i \in 1..Len(q) |-> F(q[i])]

Item(keys, P, T, text) ==
    [keys |-> keys, predicted |-> P, target |-> T, name |-> Name(text)]

\* predicted / target of the items: a length mismatch, a constant target, fewer than
\* two finite pairs, an overflowing ratio, an exact prediction.
BatchSeries ==
    { <<FSeq(<<1, 2>>), FSeq(<<1, 2, 3>>)>>,
      <<FSeq(<<1, 2>>), FSeq(<<1, 1>>)>>,
      <<<<NaN, F(1)>>, FSeq(<<1, 1>>)>>,
      <<FSeq(<<BigVal, BigVal>>), FSeq(<<1, 1>>)>>,
      <<FSeq(<<0, 1>>), FSeq(<<0, 1>>)>> }

BatchItems ==
    { Item({"predicted", "target", "name"}, pt[1], pt[2], "A") : pt \in BatchSeries }
    \cup { Item({"predicted", "target"}, FSeq(<<1, 2>>), FSeq(<<1, 2, 3>>), ""),
           Item({"predicted", "target"}, FSeq(<<0, 1>>), FSeq(<<0, 1>>), "") }
    \cup { Item({"target", "name"}, <<>>, FSeq(<<1, 1>>), "A"),
           Item({"predicted"}, FSeq(<<1, 1>>), <<>>, "") }

BaInit ==
    /\ baList \in SeqsUpTo(BatchItems, MaxBatch)
    /\ baIdx = 1
    /\ baResults = <<>>
    /\ baPc = "loop"
    /\ EmIdle
    /\ CrIdle
    /\ TsIdle
    /\ ExIdle
    /\ SvcIdle

BaNext ==
    \/ BatchIter /\ UNCHANGED <<emVars, crVars, tsVars, exVars, svcVars>>
    \/ BatchReturn /\ UNCHANGED <<emVars, crVars, tsVars, exVars, svcVars>>

SpecBatch == BaInit /\ [][BaNext]_vars

----------------------------------------------------------------------------
(* compare_runs called on an arbitrary list of results *)

CrVals == {F(1), F(2), NaN}
CrNames == {"X", "Y", "Z"}

\* 'metrics' dicts: both metrics, or RMSE alone.
CrDicts ==
    { <<<<"RMSE", v>>, <<"NSC", v>>>> : v \in CrVals } \cup { <<<<"RMSE", F(1)>>>> }

CrEntry(text, success, metrics) ==
    [name |-> Name(text), success |-> success, metrics |-> metrics]

\* Successful results carry metrics; a failed one carries none (as batch_analyze
\* writes it) or stale ones.
CrEntries ==
    { CrEntry(nm, TRUE, md) : nm \in CrNames, md \in CrDicts }
    \cup { CrEntry("X", FALSE, <<>>),
           CrEntry("Y", FALSE, <<<<"RMSE", F(0)>>, <<"NSC", F(3)>>>>) }

CrMetricArgs ==
    { [given |-> FALSE, names |-> <<>>],
      [given |-> TRUE, names |-> <<"NSC", "MAE">>] }

CrInit ==
    /\ crResults \in SeqsUpTo(CrEntries, MaxRuns)
    /\ crMetrics \in CrMetricArgs
    /\ crOut = NoResult
    /\ crPc = "call"
    /\ EmIdle
    /\ BaIdle
    /\ TsIdle
    /\ ExIdle
    /\ SvcIdle

CrNext == CompareRuns /\ UNCHANGED <<emVars, baVars, tsVars, exVars, svcVars>>

SpecCompare == CrInit /\ [][CrNext]_vars

----------------------------------------------------------------------------
(* Properties of compute_error_metrics (SpecMetrics) *)

\* The positions at which both series are finite.
UsedPositions(P, T) == {i \in 1..Len(P) : IsFinite(P[i]) /\ IsFinite(T[i])}

\* The k-th smallest element of a set of integers.
RECURSIVE KthOf(_, _)
KthOf(S, k) ==
    LET m == CHOOSE x \in S : \A y \in S : x <= y
    IN  IF k = 1 THEN m ELSE KthOf(S \ {m}, k - 1)

\* The sequence a restricted to the positions of S, in order.
Restrict(a, S) == [k \in 1..Cardinality(S) |-> a[KthOf(S, k)]]

EmCalled == emPc = "done"

EmReturned == emPc = "done" /\ emR.kind = "ok"

MetricFields == {"RMSE", "NSC", "Cor", "NRMSE", "MAE", "StdT", "StdP", "MuT", "MuP",
                 "PERS", "SSE", "SSEN", "RMSEN", "NRMSEN", "MARE", "R2", "RSR", "PBIAS",
                 "sMAPE", "KGE2009", "KGE2012", "d", "d1", "Er", "Po", "Pu"}

\* C2 (as claimed): on equal-length input with at least 2 finite pairs the call
\* never raises and returns a record with every field populated.
C2_NeverRaisesOnValidInput ==
    (EmCalled /\ Len(emP) = Len(emT) /\ Cardinality(UsedPositions(emP, emT)) >= 2)
        => (emR.kind = "ok" /\ MetricFields \subseteq DOMAIN emR)

\* C3 (as claimed): a call with series of different lengths fails with a
\* validation error whose message cites both lengths.
C3_MismatchCitesBothLengths ==
    (EmCalled /\ Len(emP) # Len(emT))
        => /\ emR.kind = "raise"
           /\ emR.exc = "ValueError"
           /\ \E i, j \in 1..Len(emR.msg.args) :
                 i # j /\ emR.msg.args[i] = Len(emP) /\ emR.msg.args[j] = Len(emT)

\* C4: pairwise deletion comes first: on equal-length input the call fails with the
\* insufficient-pairs error exactly when fewer than 2 positions are finite in both
\* series, and a returned record is computed from exactly those positions, in order
\* (one residual per retained pair, the means over the retained values only).
C4_PairwiseDeletion ==
    (EmCalled /\ Len(emP) = Len(emT))
        => LET used == UsedPositions(emP, emT)
               Pu == Restrict(emP, used)
               Tu == Restrict(emT, used)
           IN  /\ (emR = Raise("ValueError", MsgTooFew)) <=> (Cardinality(used) < 2)
               /\ emR.kind = "ok" =>
                     /\ Len(emR.Er) = Cardinality(used)
                     /\ \A k \in 1..Cardinality(used) : emR.Er[k] = FSub(Tu[k], Pu[k])
                     /\ emR.MuT = NpMean(Tu)
                     /\ emR.MuP = NpMean(Pu)

\* C4 witness: a length-3 input with a single non-finite position is accepted, n = 2.
W_C4_OneDropped ==
    /\ EmReturned
    /\ Len(emP) = 3 /\ Len(emT) = 3
    /\ Cardinality(UsedPositions(emP, emT)) = 2
    /\ Len(emR.Er) = 2

\* C5 (as claimed): zero target variance gives NRMSE = +Inf, and zero variance of
\* T[1:] gives NRMSEN = +Inf; never NaN.
C5_InfOverZeroVariance ==
    EmReturned
        => LET used == UsedPositions(emP, emT)
               Tu == Restrict(emT, used)
               T2 == SubSeq(Tu, 2, Len(Tu))
           IN  /\ IsZero(emR.StdT) => emR.NRMSE = PInf
               /\ IsZero(NpStd(T2)) => emR.NRMSEN = PInf

AllFinite(a) == \A i \in 1..Len(a) : IsFinite(a[i])

IsConstant(a) == \A i, j \in 1..Len(a) : a[i] = a[j]

PerfectPrediction == EmCalled /\ emP = emT /\ AllFinite(emT) /\ Len(emT) >= 2

----------------------------------------------------------------------------
(* Properties of batch_analyze (SpecBatch) *)

\* The item cannot be analysed: a key is missing, the lengths differ, fewer than 2
\* pairs are finite, or the computation raises.
ItemFails(item) ==
    \/ "predicted" \notin item.keys
    \/ "target" \notin item.keys
    \/ Len(item.predicted) # Len(item.target)
    \/ Cardinality(UsedPositions(item.predicted, item.target)) < 2
    \/ compute_error_metrics(item.predicted, item.target).kind = "raise"

\* The result of the item analysed alone: batch_analyze([item])[0].
AnalyzedAlone(item) == AnalyzeItem(item, 1)

IsFailure(result) ==
    /\ DOMAIN result = {"name", "success", "error"}
    /\ result.success = FALSE
    /\ result.error.text # ""

IsSuccess(result) ==
    /\ DOMAIN result = {"name", "success", "n_points", "metrics"}
    /\ result.success = TRUE

\* C1 (as claimed): one result per item, in order; a failing item yields
\* success=False with an error message and never aborts the batch; every result is
\* the same as if its item were analysed alone.
C1_BatchIsolationAsClaimed ==
    /\ baPc \in {"idle", "loop", "done"}
    /\ baPc = "done" =>
          /\ Len(baResults) = Len(baList)
          /\ \A i \in 1..Len(baList) :
                /\ ItemFails(baList[i]) => IsFailure(baResults[i])
                /\ ~ItemFails(baList[i]) => baResults[i] = AnalyzedAlone(baList[i])

\* C1 (amended): one result per item, in order; a failing item yields success=False
\* with an error message and never aborts the batch, every other item succeeds; every
\* result is the same as if its item were analysed alone, except that an item without
\* a 'name' key is named after its position in the batch (Series_<position>).
C1_BatchIsolation ==
    /\ baPc \in {"idle", "loop", "done"}
    /\ baPc = "loop" => Len(baResults) = baIdx - 1
    /\ baPc = "done" =>
          /\ Len(baResults) = Len(baList)
          /\ \A i \in 1..Len(baList) :
                /\ ItemFails(baList[i]) => IsFailure(baResults[i])
                /\ ~ItemFails(baList[i]) => IsSuccess(baResults[i])
                /\ baResults[i] =
                      [AnalyzedAlone(baList[i]) EXCEPT
                          !.name = IF "name" \in baList[i].keys THEN baList[i].name
                                   ELSE DefaultName(i)]

\* C1 witness: a batch whose first item fails and whose second succeeds, and one
\* whose items come the other way round, is answered item by item.
W_C1_FailureThenSuccess ==
    /\ baPc = "done"
    /\ Len(baList) = 3
    /\ ~baResults[1].success /\ baResults[2].success /\ ~baResults[3].success

----------------------------------------------------------------------------
(* Properties of compare_runs (SpecCompare) *)

CrCalled == crPc = "done"

CrCompared == crPc = "done" /\ crOut.kind = "comparison"

\* a is strictly better than b for a metric of the given sign
Better(a, b, higher_is_better) == IF higher_is_better THEN FGt(a, b) ELSE FLt(a, b)

\* C8 (as claimed): each ranking uses the sign of its metric (higher is better
\* exactly for NSC, Cor, R2, KGE2009, KGE2012, d, d1, PERS), its ranks are 1..k in
\* non-worsening order (no entry is strictly better than an entry ranked before it),
\* 'best' is rank 1 and 'worst' the last rank.
C8_RankingSign ==
    CrCompared
        => \A m \in 1..Len(crOut.rankings) :
              LET metric_name == crOut.rankings[m][1]
                  rk == crOut.rankings[m][2]
                  hib == metric_name \in HigherIsBetter
                  k == Len(rk.ranking)
              IN  /\ rk.higher_is_better = hib
                  /\ \A i \in 1..k : rk.ranking[i].rank = i
                  /\ \A i, j \in 1..k :
                        i < j => ~Better(rk.ranking[j].value, rk.ranking[i].value, hib)
                  /\ rk.best = rk.ranking[1].name
                  /\ rk.worst = rk.ranking[k].name

\* The position in results of the first successful series called name that carries
\* the metric (the series a ranking entry stands for).
FirstPos(results, name, metric_name) ==
    CHOOSE p \in 1..Len(results) :
        /\ results[p].success /\ results[p].name = name
        /\ DictHas(results[p].metrics, metric_name)
        /\ \A q \in 1..(p - 1) :
              ~(results[q].success /\ results[q].name = name
                /\ DictHas(results[q].metrics, metric_name))

FEq(a, b) == ~IsNaN(a) /\ ~IsNaN(b) /\ a = b

SuccessfulValues(results, metric_name) ==
    LET have == SelectSeq(results,
                          LAMBDA r : r.success /\ DictHas(r.metrics, metric_name))
    IN  [i \in 1..Len(have) |-> DictGet(have[i].metrics, metric_name)]

\* C10: an empty list, or a list without a successful entry, is answered with a
\* diagnostic record (an 'error' field), not an exception; otherwise the comparison
\* is over the successful entries only: they are the series counted and named, every
\* statistic is that of their values, and every ranked name and value is one of theirs.
C10_GracefulAndFiltered ==
    CrCalled
        => LET none == \A i \in 1..Len(crResults) : ~crResults[i].success
           IN  /\ none => (crOut.kind = "error" /\ crOut.error # "")
               /\ ~none =>
                     /\ crOut.kind = "comparison"
                     /\ crOut.num_series =
                           Cardinality({i \in 1..Len(crResults) : crResults[i].success})
                     /\ \A i \in 1..Len(crOut.series_names) :
                           \E p \in 1..Len(crResults) :
                              crResults[p].success
                              /\ crResults[p].name = crOut.series_names[i]
                     /\ \A m \in 1..Len(crOut.comparison_table) :
                           LET metric_name == crOut.comparison_table[m][1]
                               st == crOut.comparison_table[m][2]
                               vals == SuccessfulValues(crResults, metric_name)
                           IN  /\ st.min = NpMin(vals) /\ st.max = NpMax(vals)
                               /\ st.mean = NpMean(vals) /\ st.median = NpMedian(vals)
                               /\ st.std = NpStd(vals)
                     /\ \A m \in 1..Len(crOut.rankings) :
                           LET metric_name == crOut.rankings[m][1]
                               rk == crOut.rankings[m][2].ranking
                           IN  \A i \in 1..Len(rk) :
                                  \E p \in 1..Len(crResults) :
                                     /\ crResults[p].success
                                     /\ crResults[p].name = rk[i].name
                                     /\ DictHas(crResults[p].metrics, metric_name)
                                     /\ DictGet(crResults[p].metrics, metric_name)
                                           = rk[i].value

\* C10 witness: a non-empty list without a successful entry gets the diagnostic.
W_C10_NoSuccessfulEntry ==
    /\ CrCalled
    /\ Len(crResults) >= 2
    /\ \A i \in 1..Len(crResults) : ~crResults[i].success
    /\ \E i \in 1..Len(crResults) : crResults[i].metrics # <<>>
    /\ crOut = Diagnostic("No successful analyses to compare")

----------------------------------------------------------------------------
(* src/api/timeseries.py: the series transforms.                                  *)
(* An array is a position of tsHeap (a reference); the caller's series y is       *)
(* reference 1 and, for the functions that take one, its index x is reference 2.  *)
(* A function is an operator from the heap and its arguments to the heap it       *)
(* leaves and what it returns or raises. Temporaries that no returned value keeps *)
(* are not stored.                                                                *)

\* An optional argument: None, or a value (NoneV of an integer, NoneF of a float).
NoneV == [some |-> FALSE, val |-> 0]
NoneF == [some |-> FALSE, val |-> <<"fin", 0, 1>>]
Some(v) == [some |-> TRUE, val |-> v]

Ret(h, r) == [heap |-> h, ret |-> r]

\* A new array holding data: the heap, and the reference of the new array.
Alloc(h, data) == Append(h, data)
NewRef(h) == Len(h) + 1

\* a[ref][i] = v (i from 1)
Store(h, ref, i, v) == [h EXCEPT ![ref] = [h[ref] EXCEPT ![i] = v]]

Msg(text) == [text |-> text, args |-> <<>>]

NpIsNan(y) == [i \in 1..Len(y) |-> IsNaN(y[i])]           \* np.isnan
NpIsFinite(y) == [i \in 1..Len(y) |-> IsFinite(y[i])]     \* np.isfinite
NpNot(b) == [i \in 1..Len(b) |-> ~b[i]]                   \* ~mask
NpAny(b) == \E i \in 1..Len(b) : b[i]                     \* np.any
NpZerosBool(n) == [i \in 1..n |-> FALSE]                  \* np.zeros(dtype=bool)
NpZeros(n) == [i \in 1..n |-> F(0)]                       \* np.zeros
NpFull(n, v) == [i \in 1..n |-> v]                        \* np.full
NpArange(n) == [i \in 1..n |-> F(i - 1)]                  \* np.arange(n)
NpCumsum(a) == [i \in 1..Len(a) |-> NpSumR(a, i)]         \* np.cumsum
VDivS(a, c) == [i \in 1..Len(a) |-> FDiv(a[i], c)]        \* a / scalar
VAddS(a, c) == [i \in 1..Len(a) |-> FAdd(a[i], c)]        \* a + scalar

\* a[k:] and a[:-k] for k >= 1 (Python slices, positions from 1 here)
SliceFrom(a, k) == SubSeq(a, k + 1, Len(a))
SliceToMinus(a, k) == SubSeq(a, 1, Len(a) - k)

\* The values of y that are not NaN, in order (what the nan-functions look at).
NotNan(y) == Take(y, NpNot(NpIsNan(y)))

NpNanMean(y) == IF Len(NotNan(y)) = 0 THEN NaN ELSE NpMean(NotNan(y))       \* np.nanmean
NpNanMedian(y) == IF Len(NotNan(y)) = 0 THEN NaN ELSE NpMedian(NotNan(y))   \* np.nanmedian
NpNanStd(y) == IF Len(NotNan(y)) = 0 THEN NaN ELSE NpStd(NotNan(y))         \* np.nanstd

\* The largest j with xp[j] <= x (xp ascending, xp[1] <= x).
Bracket(x, xp) ==
    CHOOSE j \in 1..Len(xp) :
        /\ FLe(xp[j], x)
        /\ \A k \in 1..Len(xp) : FLe(xp[k], x) => k <= j

\* np.interp at one point: the end value outside [xp[1], xp[n]], fp[j] on a knot,
\* else slope * (x - xp[j]) + fp[j], computed from the right knot when that is NaN.
InterpSegment(x, xlo, xhi, flo, fhi, slope) ==
    IF ~IsNaN(FAdd(FMul(slope, FSub(x, xlo)), flo))
    THEN FAdd(FMul(slope, FSub(x, xlo)), flo)
    ELSE IF IsNaN(FAdd(FMul(slope, FSub(x, xhi)), fhi)) /\ FEq(flo, fhi) THEN flo
    ELSE FAdd(FMul(slope, FSub(x, xhi)), fhi)

InterpAt(x, xp, fp, j) ==
    IF j = Len(xp) \/ FEq(xp[j], x) THEN fp[j]
    ELSE InterpSegment(x, xp[j], xp[j + 1], fp[j], fp[j + 1],
                       FDiv(FSub(fp[j + 1], fp[j]), FSub(xp[j + 1], xp[j])))

NpInterp1(x, xp, fp) ==
    IF IsNaN(x) THEN x
    ELSE IF FGt(x, xp[Len(xp)]) THEN fp[Len(fp)]
    ELSE IF FLt(x, xp[1]) THEN fp[1]
    ELSE InterpAt(x, xp, fp, Bracket(x, xp))

NpInterp(xs, xp, fp) == [i \in 1..Len(xs) |-> NpInterp1(xs[i], xp, fp)]     \* np.interp

\* a[mask] = vals: the k-th masked position takes vals[k].
RECURSIVE PutMaskedR(_, _, _, _)
PutMaskedR(a, idx, vals, k) ==
    IF k = 0 THEN a
    ELSE [PutMaskedR(a, idx, vals, k - 1) EXCEPT ![idx[k]] = vals[k]]

PutMasked(a, mask, vals) ==
    PutMaskedR(a, MaskIdxR(mask, Len(a)), vals, Len(MaskIdxR(mask, Len(a))))

\* a[mask] = scalar
PutMaskedS(a, mask, v) == [i \in 1..Len(a) |-> IF mask[i] THEN v ELSE a[i]]

MsgWindow == Msg("Window size must be >= 1")
MsgAlpha == Msg("Alpha must be in (0, 1]")
MsgIndex0 == Msg("index 0 is out of bounds for axis 0 with size 0")
MsgUnknownSmoothing(method) == [text |-> "Unknown smoothing method: ", args |-> <<method>>]
MsgUnknownFill(method) == [text |-> "Unknown fill method: ", args |-> <<method>>]

\* moving_average(y, window_size)
moving_average(h, y, window_size) ==
    IF window_size < 1 THEN Ret(h, Raise("ValueError", MsgWindow))
    ELSE LET cumsum == NpCumsum(<<F(0)>> \o h[y])
             result == VDivS(VSub(SliceFrom(cumsum, window_size),
                                  SliceToMinus(cumsum, window_size)),
                             F(window_size))
             pad_size == Len(h[y]) - Len(result)
         IN  IF pad_size > 0
             THEN IF Len(result) = 0 THEN Ret(h, Raise("IndexError", MsgIndex0))
                  ELSE Ret(Alloc(h, NpFull(pad_size, result[1]) \o result),
                           [kind |-> "ok", data |-> NewRef(h)])
             ELSE Ret(Alloc(h, result), [kind |-> "ok", data |-> NewRef(h)])

\* The loop of exponential_smoothing from position i (positions from 1).
RECURSIVE ExpLoop(_, _, _, _, _)
ExpLoop(h, result, y, alpha, i) ==
    IF i > Len(h[y]) THEN h
    ELSE ExpLoop(Store(h, result, i,
                       FAdd(FMul(alpha, h[y][i]),
                            FMul(FSub(F(1), alpha), h[result][i - 1]))),
                 result, y, alpha, i + 1)

\* Mutant of AlphaInRange: alpha = 0 accepted.
AlphaInRangeClosed(alpha) == FLe(F(0), alpha) /\ FLe(alpha, F(1))

\* 0 < alpha <= 1
AlphaInRange(alpha) == FLt(F(0), alpha) /\ FLe(alpha, F(1))

\* exponential_smoothing(y, alpha)
exponential_smoothing(h, y, alpha) ==
    IF ~AlphaInRange(alpha) THEN Ret(h, Raise("ValueError", MsgAlpha))
    ELSE IF Len(h[y]) = 0
         THEN Ret(Alloc(h, NpZeros(0)), Raise("IndexError", MsgIndex0))
         ELSE Ret(ExpLoop(Store(Alloc(h, NpZeros(Len(h[y]))), NewRef(h), 1, h[y][1]),
                          NewRef(h), y, alpha, 2),
                  [kind |-> "ok", data |-> NewRef(h)])

DefaultPolyorder == 2
DefaultAlpha == Mk(3, 10)

\* window_size after "if window_size % 2 == 0: window_size += 1"
OddWindow(window_size) == IF window_size % 2 = 0 THEN window_size + 1 ELSE window_size

\* smooth_data(y, method, window_size, **kwargs); kwargs holds polyorder and alpha,
\* each present or not. scipy's savgol_filter is not modelled: the call is recorded.
smooth_data(h, y, method, window_size, kwargs) ==
    IF method = "moving_average" THEN moving_average(h, y, window_size)
    ELSE IF method = "savitzky_golay"
    THEN Ret(h, [kind |-> "external", fn |-> "signal.savgol_filter",
                 args |-> <<y, OddWindow(window_size),
                            IF kwargs.polyorder.some THEN kwargs.polyorder.val
                            ELSE DefaultPolyorder>>])
    ELSE IF method = "exponential"
    THEN exponential_smoothing(h, y, IF kwargs.alpha.some THEN kwargs.alpha.val
                                     ELSE DefaultAlpha)
    ELSE Ret(h, Raise("ValueError", MsgUnknownSmoothing(method)))

\* Mutant of MayFill: the limit is exclusive.
MayFillBelow(limit, consecutive_nans) == ~limit.some \/ consecutive_nans < limit.val

\* limit is None or consecutive_nans <= limit
MayFill(limit, consecutive_nans) == ~limit.some \/ consecutive_nans <= limit.val

\* The loop of forward_fill at position i (from 1): last_valid is None or a value.
RECURSIVE ForwardLoop(_, _, _, _, _, _, _)
ForwardLoop(h, result, mask, limit, i, last_valid, consecutive_nans) ==
    IF i > Len(mask) THEN h
    ELSE IF ~mask[i]
    THEN ForwardLoop(h, result, mask, limit, i + 1, Some(h[result][i]), 0)
    ELSE IF last_valid.some
    THEN ForwardLoop(IF MayFill(limit, consecutive_nans + 1)
                     THEN Store(h, result, i, last_valid.val) ELSE h,
                     result, mask, limit, i + 1, last_valid, consecutive_nans + 1)
    ELSE ForwardLoop(h, result, mask, limit, i + 1, last_valid, consecutive_nans)

\* forward_fill(y, limit): result = y.copy(), then the loop writes into result.
forward_fill(h, y, limit) ==
    Ret(ForwardLoop(Alloc(h, h[y]), NewRef(h), NpIsNan(h[y]), limit, 1, NoneF, 0),
        [kind |-> "ok", data |-> NewRef(h)])

\* The loop of backward_fill at position i, from the last position down to 1.
RECURSIVE BackwardLoop(_, _, _, _, _, _, _)
BackwardLoop(h, result, mask, limit, i, next_valid, consecutive_nans) ==
    IF i < 1 THEN h
    ELSE IF ~mask[i]
    THEN BackwardLoop(h, result, mask, limit, i - 1, Some(h[result][i]), 0)
    ELSE IF next_valid.some
    THEN BackwardLoop(IF MayFill(limit, consecutive_nans + 1)
                      THEN Store(h, result, i, next_valid.val) ELSE h,
                      result, mask, limit, i - 1, next_valid, consecutive_nans + 1)
    ELSE BackwardLoop(h, result, mask, limit, i - 1, next_valid, consecutive_nans)

\* backward_fill(y, limit)
backward_fill(h, y, limit) ==
    Ret(BackwardLoop(Alloc(h, h[y]), NewRef(h), NpIsNan(h[y]), limit, Len(h[y]),
                     NoneF, 0),
        [kind |-> "ok", data |-> NewRef(h)])

\* Mutant of LinearFill: every gap takes the first valid value.
LinearFillFirst(yv, mask) == PutMaskedS(yv, mask, Take(yv, NpNot(mask))[1])

\* y_filled[mask] = np.interp(indices[mask], indices[valid], y[valid])
LinearFill(yv, mask) ==
    PutMasked(yv, mask,
              NpInterp(Take(NpArange(Len(yv)), mask),
                       Take(NpArange(Len(yv)), NpNot(mask)),
                       Take(yv, NpNot(mask))))

\* fill_missing_data from "if method == 'linear'" on: y_filled and mask are the
\* references of the copy and of np.isnan(y).
FillBranches(h, y, method, limit, y_filled, mask) ==
    IF method = "linear"
    THEN IF CountTrue(NpNot(h[mask])) >= 2
         THEN Ret([h EXCEPT ![y_filled] = LinearFill(h[y], h[mask])],
                  [kind |-> "ok", filled |-> y_filled, mask |-> mask])
         ELSE Ret(h, [kind |-> "ok", filled |-> y_filled, mask |-> mask])
    ELSE IF method = "forward"
    THEN Ret(forward_fill(h, y, limit).heap,
             [kind |-> "ok", filled |-> forward_fill(h, y, limit).ret.data,
              mask |-> mask])
    ELSE IF method = "backward"
    THEN Ret(backward_fill(h, y, limit).heap,
             [kind |-> "ok", filled |-> backward_fill(h, y, limit).ret.data,
              mask |-> mask])
    ELSE IF method = "mean"
    THEN Ret([h EXCEPT ![y_filled] = PutMaskedS(h[y_filled], h[mask], NpNanMean(h[y]))],
             [kind |-> "ok", filled |-> y_filled, mask |-> mask])
    ELSE IF method = "median"
    THEN Ret([h EXCEPT ![y_filled] = PutMaskedS(h[y_filled], h[mask], NpNanMedian(h[y]))],
             [kind |-> "ok", filled |-> y_filled, mask |-> mask])
    ELSE Ret(h, Raise("ValueError", MsgUnknownFill(method)))

\* fill_missing_data lines 134-165, after y_filled = y.copy() and mask = np.isnan(y).
FillAfterCopy(h, y, method, limit, y_filled, mask) ==
    IF ~NpAny(h[mask])
    THEN Ret(Alloc(h, NpZerosBool(Len(h[y]))),
             [kind |-> "ok", filled |-> y_filled, mask |-> NewRef(h)])
    ELSE FillBranches(h, y, method, limit, y_filled, mask)

\* fill_missing_data(y, method, limit)
fill_missing_data(h, y, method, limit) ==
    FillAfterCopy(Alloc(Alloc(h, h[y]), NpIsNan(h[y])), y, method, limit,
                  NewRef(h), NewRef(h) + 1)

\* scipy.ndimage.uniform_filter1d(y, size, mode='nearest'): at each position the
\* mean of the size values around it (size \div 2 before it), the ends repeated.
Clamp(i, n) == IF i < 1 THEN 1 ELSE IF i > n THEN n ELSE i

UniformFilter1d(y, size) ==
    [i \in 1..Len(y) |->
        NpMean([k \in 1..size |-> y[Clamp(i - (size \div 2) + k - 1, Len(y))]])]

\* The small constant 1e-10 of decompose_trend and detect_outliers: the smallest
\* positive value of the precision grid.
Eps == Mk(1, DenMax)

MsgUnknownModel(model) == [text |-> "Unknown model: ", args |-> <<model>>]
MsgUnknownMethod(method) == [text |-> "Unknown method: ", args |-> <<method>>]

\* The positions np.arange(i, n, period) (i from 0), as positions from 1.
Phase(i, n, period) == {p \in 1..n : p - 1 >= i /\ (p - 1 - i) % period = 0}

PhaseMask(i, n, period) == [p \in 1..n |-> p \in Phase(i, n, period)]

\* The loop "for i in range(period)" of decompose_trend from phase i on.
RECURSIVE SeasonalLoop(_, _, _, _)
SeasonalLoop(seasonal, detrended, period, i) ==
    IF i >= period THEN seasonal
    ELSE SeasonalLoop(PutMaskedS(seasonal, PhaseMask(i, Len(seasonal), period),
                                 NpNanMean(Take(detrended,
                                                PhaseMask(i, Len(seasonal), period)))),
                      detrended, period, i + 1)

Detrended(yv, trend, model) ==
    IF model = "additive" THEN VSub(yv, trend) ELSE VDiv(yv, VAddS(trend, Eps))

DecomposeResidual(yv, trend, seasonal, model) ==
    IF model = "additive" THEN VSub(VSub(yv, trend), seasonal)
    ELSE VDiv(yv, VMul(VAddS(trend, Eps), VAddS(seasonal, Eps)))

\* decompose_trend lines 243-259: the arrays trend, seasonal and residual are new,
\* 'original' is y itself.
DecomposeFrom(h, y, period, model, trend, seasonal) ==
    Ret(Alloc(Alloc(Alloc(h, trend), seasonal),
              DecomposeResidual(h[y], trend, seasonal, model)),
        [kind |-> "ok", trend |-> NewRef(h), seasonal |-> NewRef(h) + 1,
         residual |-> NewRef(h) + 2, original |-> y])

\* decompose_trend from "# Detrend" (line 232) on, trend computed.
DecomposeDetrend(h, y, period, model, trend) ==
    IF model \notin {"additive", "multiplicative"}
    THEN Ret(h, Raise("ValueError", MsgUnknownModel(model)))
    ELSE DecomposeFrom(h, y, period, model, trend,
                       SeasonalLoop(NpZeros(Len(h[y])), Detrended(h[y], trend, model),
                                    period, 0))

\* decompose_trend(y, period, model)
decompose_trend(h, y, period, model) ==
    DecomposeDetrend(h, y, period, model, UniformFilter1d(h[y], period))

\* z_scores > threshold, (y < lower_bound) | (y > upper_bound)
VGtS(a, c) == [i \in 1..Len(a) |-> FGt(a[i], c)]
VOutside(a, lo, hi) == [i \in 1..Len(a) |-> FLt(a[i], lo) \/ FGt(a[i], hi)]

\* np.nanpercentile(y, q) with q = 25 * quarter: between the two order statistics
\* around position (n - 1) * q / 100 of the values that are not NaN.
Lerp(a, b, num, den) ==
    IF 2 * num >= den THEN FSub(b, FMul(FSub(b, a), Mk(den - num, den)))
    ELSE FAdd(a, FMul(FSub(b, a), Mk(num, den)))

PercentileOf(srt, quarter) ==
    Lerp(srt[((Len(srt) - 1) * quarter) \div 4 + 1],
         srt[Clamp(((Len(srt) - 1) * quarter) \div 4 + 2, Len(srt))],
         ((Len(srt) - 1) * quarter) % 4, 4)

NpNanPercentile(y, quarter) ==
    IF Len(NotNan(y)) = 0 THEN NaN ELSE PercentileOf(SortedValues(NotNan(y)), quarter)

ZScores(yv) == VAbs(VDivS(VSubS(yv, NpNanMean(yv)), FAdd(NpNanStd(yv), Eps)))

IqrOutliers(yv, threshold, q1, q3) ==
    VOutside(yv, FSub(q1, FMul(threshold, FSub(q3, q1))),
             FAdd(q3, FMul(threshold, FSub(q3, q1))))

\* detect_outliers(y, method, threshold)
detect_outliers(h, y, method, threshold) ==
    IF method = "zscore"
    THEN Ret(Alloc(h, VGtS(ZScores(h[y]), threshold)), [kind |-> "ok", data |-> NewRef(h)])
    ELSE IF method = "iqr"
    THEN Ret(Alloc(h, IqrOutliers(h[y], threshold, NpNanPercentile(h[y], 1),
                                  NpNanPercentile(h[y], 3))),
             [kind |-> "ok", data |-> NewRef(h)])
    ELSE Ret(h, Raise("ValueError", MsgUnknownMethod(method)))

MsgNeed2Interp == Msg("Need at least 2 valid points for interpolation")
MsgNeed2 == Msg("Need at least 2 valid points")
MsgUnknownKind(kind) == [text |-> "Unknown interpolation kind: ", args |-> <<kind>>]
MsgLinspace(num) == [text |-> "Number of samples, %s, must be non-negative.", args |-> <<num>>]
MsgSplineEntries(k) == [text |-> "x and y arrays must have at least %d entries", args |-> <<k>>]
MsgUnsupported(kind) == [text |-> "%s is unsupported: Use fitpack routines for other types.",
                         args |-> <<kind>>]

\* A sampling that stops one step short of stop.
NpLinspaceOpen(start, stop, num) ==
    [i \in 1..num |-> FAdd(FMul(F(i - 1), FDiv(FSub(stop, start), F(num))), start)]

\* np.linspace(start, stop, num), num >= 0: start + i * step, the last sample stop.
NpLinspace(start, stop, num) ==
    [i \in 1..num |->
        IF num > 1 /\ i = num THEN stop
        ELSE IF num = 1 THEN start
        ELSE FAdd(FMul(F(i - 1), FDiv(FSub(stop, start), F(num - 1))), start)]

\* The order of scipy's interp1d spline kinds.
SplineOrder(kind) == IF kind = "quadratic" THEN 2 ELSE 3

\* interp1d(kind='linear', fill_value='extrapolate') at one point: the segment is
\* chosen by searchsorted, clipped to the first and last segments.
SearchSorted(x, xp) == Cardinality({j \in 1..Len(xp) : FLt(xp[j], x)})

LinearAt(x, xp, fp, lo) ==
    FAdd(FMul(FDiv(FSub(fp[lo + 1], fp[lo]), FSub(xp[lo + 1], xp[lo])),
              FSub(x, xp[lo])),
         fp[lo])

Interp1dLinear(xs, xp, fp) ==
    [i \in 1..Len(xs) |->
        LinearAt(xs[i], xp, fp, Clamp(SearchSorted(xs[i], xp), Len(xp) - 1))]

\* The samples of a scipy spline of the given order: not modelled, each sample is
\* an opaque value.
SplineSamples(order, xs) == [i \in 1..Len(xs) |-> <<"spline", order, i>>]

\* f = interpolate.interp1d(x_clean, y_clean, kind=kind, ...); f(x_new), or what
\* interp1d raises.
Interp1d(h, xp, fp, kind, x_new) ==
    IF kind = "linear"
    THEN Ret(Alloc(Alloc(h, x_new), Interp1dLinear(x_new, xp, fp)),
             [kind |-> "ok", x_new |-> NewRef(h), y_new |-> NewRef(h) + 1])
    ELSE IF kind \in {"quadratic", "cubic"}
    THEN IF Len(xp) < SplineOrder(kind) + 1
         THEN Ret(h, Raise("ValueError", MsgSplineEntries(SplineOrder(kind) + 1)))
         ELSE Ret(Alloc(Alloc(h, x_new), SplineSamples(SplineOrder(kind), x_new)),
                  [kind |-> "ok", x_new |-> NewRef(h), y_new |-> NewRef(h) + 1])
    ELSE Ret(h, Raise("NotImplementedError", MsgUnsupported(kind)))

\* spline_interpolate lines 38-51, the non-finite values removed.
InterpolateClean(h, x_clean, y_clean, kind, num_points) ==
    IF kind \notin {"linear", "quadratic", "cubic"}
    THEN Ret(h, Raise("ValueError", MsgUnknownKind(kind)))
    ELSE IF kind # "linear" /\ Len(x_clean) < SplineOrder(kind) + 1
    THEN Ret(h, Raise("ValueError", MsgSplineEntries(SplineOrder(kind) + 1)))
    ELSE IF num_points < 0 THEN Ret(h, Raise("ValueError", MsgLinspace(num_points)))
    ELSE Interp1d(h, x_clean, y_clean, kind,
                  NpLinspace(x_clean[1], x_clean[Len(x_clean)], num_points))

\* Mutant of FiniteMask: only NaN is dropped.
NotNanMask(yv) == NpNot(NpIsNan(yv))

\* mask = np.isfinite(y)
FiniteMask(yv) == NpIsFinite(yv)

\* spline_interpolate(x, y, kind, num_points, fill_value='extrapolate')
spline_interpolate(h, x, y, kind, num_points) ==
    IF CountTrue(FiniteMask(h[y])) < 2
    THEN Ret(h, Raise("ValueError", MsgNeed2Interp))
    ELSE InterpolateClean(h, Take(h[x], FiniteMask(h[y])), Take(h[y], FiniteMask(h[y])),
                          kind,
                          IF num_points.some THEN num_points.val ELSE Len(h[x]) * 2)

\* resample_timeseries lines 319-329, the non-finite values removed.
ResampleClean(h, x_clean, y_clean, target_points, method, x_new) ==
    IF method = "linear"
    THEN Ret(Alloc(Alloc(h, x_new), NpInterp(x_new, x_clean, y_clean)),
             [kind |-> "ok", x_new |-> NewRef(h), y_new |-> NewRef(h) + 1])
    ELSE Interp1d(h, x_clean, y_clean, method, x_new)

\* resample_timeseries(x, y, target_points, method)
resample_timeseries(h, x, y, target_points, method) ==
    IF CountTrue(FiniteMask(h[y])) < 2
    THEN Ret(h, Raise("ValueError", MsgNeed2))
    ELSE IF target_points < 0
    THEN Ret(h, Raise("ValueError", MsgLinspace(target_points)))
    ELSE ResampleClean(h, Take(h[x], FiniteMask(h[y])), Take(h[y], FiniteMask(h[y])),
                       target_points, method,
                       NpLinspace(Take(h[x], FiniteMask(h[y]))[1],
                                  Take(h[x], FiniteMask(h[y]))[CountTrue(FiniteMask(h[y]))],
                                  target_points))

----------------------------------------------------------------------------
(* A series transform called once on an arbitrary series *)

MaxWindow == 4      \* largest window_size given to smooth_data
MaxLimit == 2       \* largest limit given to the fill functions
MaxPeriod == 3      \* largest period given to decompose_trend
MaxPoints == 3      \* largest number of points asked of interpolate / resample

TsVals == {F(1), F(3), NaN, PInf}

AlphaVals == {F(0), Mk(1, 2), F(1), F(2), NaN}

Limits == {NoneV} \cup {Some(l) : l \in 0..MaxLimit}

NoKwargs == [polyorder |-> NoneV, alpha |-> NoneF]

SmoothCalls ==
    { [fn |-> "smooth_data", method |-> m, window_size |-> w, kwargs |-> NoKwargs] :
          m \in {"moving_average", "savitzky_golay"}, w \in 0..MaxWindow }
    \cup { [fn |-> "smooth_data", method |-> "exponential", window_size |-> MaxWindow,
            kwargs |-> [polyorder |-> NoneV, alpha |-> a]] :
          a \in {NoneF} \cup {Some(v) : v \in AlphaVals} }
    \cup { [fn |-> "smooth_data", method |-> "bogus", window_size |-> 1,
            kwargs |-> NoKwargs] }

FillCalls ==
    { [fn |-> "fill_missing_data", method |-> m, limit |-> l] :
          m \in {"linear", "forward", "backward", "mean", "median", "bogus"},
          l \in Limits }
    \cup { [fn |-> f, limit |-> l] : f \in {"forward_fill", "backward_fill"}, l \in Limits }

DecomposeCalls ==
    { [fn |-> "decompose_trend", period |-> p, model |-> m] :
          p \in 1..MaxPeriod, m \in {"additive", "multiplicative", "bogus"} }

OutlierCalls ==
    { [fn |-> "detect_outliers", method |-> m, threshold |-> t] :
          m \in {"zscore", "iqr", "bogus"}, t \in {Mk(1, 2), F(1)} }

\* The index of the series: np.arange(len(y)), or an explicit increasing one.
IndexKinds == {"arange", "explicit"}

IndexOf(kind, n) == IF kind = "arange" THEN NpArange(n) ELSE [i \in 1..n |-> F(2 * i - 1)]

InterpolateCalls ==
    { [fn |-> "spline_interpolate", index |-> ix, kind |-> k, num_points |-> np] :
          ix \in IndexKinds, k \in {"linear", "quadratic", "cubic", "bogus"},
          np \in {NoneV} \cup {Some(p) : p \in 0..MaxPoints} }

ResampleCalls ==
    { [fn |-> "resample_timeseries", index |-> ix, method |-> m, target_points |-> tp] :
          ix \in IndexKinds, m \in {"linear", "cubic", "bogus"}, tp \in -1..MaxPoints }

TsCalls ==
    SmoothCalls \cup FillCalls \cup DecomposeCalls \cup OutlierCalls
    \cup InterpolateCalls \cup ResampleCalls

HasIndex(call) == call.fn \in {"spline_interpolate", "resample_timeseries"}

\* The caller's arrays: y is reference 1, its index x (when the function takes one)
\* reference 2.
CallerHeap(yv, call) ==
    IF HasIndex(call) THEN <<yv, IndexOf(call.index, Len(yv))>> ELSE <<yv>>

TsInit ==
    /\ \E yv \in SeqsUpTo(TsVals, MaxLen), call \in TsCalls :
          /\ call.fn = "decompose_trend" => Len(yv) >= 1
          /\ tsHeap = CallerHeap(yv, call)
          /\ tsCall = call
    /\ tsR = NoResult
    /\ tsPc = "call"
    /\ EmIdle
    /\ BaIdle
    /\ CrIdle
    /\ ExIdle
    /\ SvcIdle

\* The call returns or raises: r is what the function gives on the caller's heap.
TsReturn(r) ==
    /\ tsHeap' = r.heap
    /\ tsR' = r.ret
    /\ tsPc' = "done"
    /\ UNCHANGED tsCall
    /\ UNCHANGED <<emVars, baVars, crVars, exVars, svcVars>>

SmoothData ==
    /\ tsPc = "call" /\ tsCall.fn = "smooth_data"
    /\ TsReturn(smooth_data(tsHeap, 1, tsCall.method, tsCall.window_size, tsCall.kwargs))

FillMissingData ==
    /\ tsPc = "call" /\ tsCall.fn = "fill_missing_data"
    /\ TsReturn(fill_missing_data(tsHeap, 1, tsCall.method, tsCall.limit))

ForwardFill ==
    /\ tsPc = "call" /\ tsCall.fn = "forward_fill"
    /\ TsReturn(forward_fill(tsHeap, 1, tsCall.limit))

BackwardFill ==
    /\ tsPc = "call" /\ tsCall.fn = "backward_fill"
    /\ TsReturn(backward_fill(tsHeap, 1, tsCall.limit))

DecomposeTrend ==
    /\ tsPc = "call" /\ tsCall.fn = "decompose_trend"
    /\ TsReturn(decompose_trend(tsHeap, 1, tsCall.period, tsCall.model))

DetectOutliers ==
    /\ tsPc = "call" /\ tsCall.fn = "detect_outliers"
    /\ TsReturn(detect_outliers(tsHeap, 1, tsCall.method, tsCall.threshold))

SplineInterpolate ==
    /\ tsPc = "call" /\ tsCall.fn = "spline_interpolate"
    /\ TsReturn(spline_interpolate(tsHeap, 2, 1, tsCall.kind, tsCall.num_points))

ResampleTimeseries ==
    /\ tsPc = "call" /\ tsCall.fn = "resample_timeseries"
    /\ TsReturn(resample_timeseries(tsHeap, 2, 1, tsCall.target_points, tsCall.method))

TsNext ==
    \/ SmoothData
    \/ FillMissingData
    \/ ForwardFill
    \/ BackwardFill
    \/ DecomposeTrend
    \/ DetectOutliers
    \/ SplineInterpolate
    \/ ResampleTimeseries

SpecTransform == TsInit /\ [][TsNext]_vars

----------------------------------------------------------------------------
(* Properties of the series transforms (SpecTransform) *)

TsDone(fn) == tsPc = "done" /\ tsCall.fn = fn

TsIn == tsHeap[1]

TsOk == tsR.kind = "ok"

\* The positions of y that hold a value (not NaN), and the nearest of them on
\* either side of position i.
ValidPos(y) == {i \in 1..Len(y) : ~IsNaN(y[i])}

HasLeft(y, i) == \E j \in ValidPos(y) : j < i
HasRight(y, i) == \E j \in ValidPos(y) : j > i

LeftOf(y, i) == CHOOSE j \in ValidPos(y) : j < i /\ \A k \in ValidPos(y) : k < i => k <= j
RightOf(y, i) == CHOOSE j \in ValidPos(y) : j > i /\ \A k \in ValidPos(y) : k > i => k >= j

\* The value at position i of the straight line through (l, y[l]) and (r, y[r]).
OnLine(y, l, r, i) ==
    FAdd(FMul(FDiv(FSub(y[r], y[l]), F(r - l)), F(i - l)), y[l])

LinearCall == TsDone("fill_missing_data") /\ tsCall.method = "linear"

\* C11 (as claimed): linear fill replaces every missing position by the linear
\* interpolation between its two nearest valid neighbours, leaves valid positions
\* unchanged, and fills nothing when fewer than 2 valid points exist.
C11_LinearFillAsClaimed ==
    LinearCall
        => /\ TsOk
           /\ \A i \in ValidPos(TsIn) : tsHeap[tsR.filled][i] = TsIn[i]
           /\ \A i \in (1..Len(TsIn)) \ ValidPos(TsIn) :
                 IF Cardinality(ValidPos(TsIn)) < 2 THEN IsNaN(tsHeap[tsR.filled][i])
                 ELSE /\ HasLeft(TsIn, i) /\ HasRight(TsIn, i)
                      /\ tsHeap[tsR.filled][i]
                            = OnLine(TsIn, LeftOf(TsIn, i), RightOf(TsIn, i), i)

\* C11 (amended): linear fill leaves valid positions unchanged; with fewer than 2
\* valid points every missing position stays missing; otherwise a missing position
\* between two finite valid neighbours takes the linear interpolation between the
\* nearest valid value on each side, and a missing position before the first or
\* after the last valid value takes that value.
C11_LinearFill ==
    LinearCall
        => /\ TsOk
           /\ Len(tsHeap[tsR.filled]) = Len(TsIn)
           /\ \A i \in ValidPos(TsIn) : tsHeap[tsR.filled][i] = TsIn[i]
           /\ \A i \in (1..Len(TsIn)) \ ValidPos(TsIn) :
                 IF Cardinality(ValidPos(TsIn)) < 2 THEN IsNaN(tsHeap[tsR.filled][i])
                 ELSE IF HasLeft(TsIn, i) /\ HasRight(TsIn, i)
                 THEN (IsFinite(TsIn[LeftOf(TsIn, i)]) /\ IsFinite(TsIn[RightOf(TsIn, i)]))
                         => tsHeap[tsR.filled][i]
                               = OnLine(TsIn, LeftOf(TsIn, i), RightOf(TsIn, i), i)
                 ELSE IF HasRight(TsIn, i)
                 THEN tsHeap[tsR.filled][i] = TsIn[RightOf(TsIn, i)]
                 ELSE tsHeap[tsR.filled][i] = TsIn[LeftOf(TsIn, i)]

\* C11 witness: [1, NaN, 3] becomes [1, 2, 3] with mask [false, true, false].
W_C11_MiddleGap ==
    /\ LinearCall
    /\ TsIn = <<F(1), NaN, F(3)>>
    /\ tsHeap[tsR.filled] = <<F(1), F(2), F(3)>>
    /\ tsHeap[tsR.mask] = <<FALSE, TRUE, FALSE>>

ForwardCall ==
    \/ TsDone("forward_fill")
    \/ TsDone("fill_missing_data") /\ tsCall.method = "forward"

BackwardCall ==
    \/ TsDone("backward_fill")
    \/ TsDone("fill_missing_data") /\ tsCall.method = "backward"

\* The series a fill call returned.
Filled == IF tsCall.fn = "fill_missing_data" THEN tsHeap[tsR.filled] ELSE tsHeap[tsR.data]

\* The run of consecutive missing values that position i is in: its first and last
\* positions.
RunFirst(y, i) == IF HasLeft(y, i) THEN LeftOf(y, i) + 1 ELSE 1
RunLast(y, i) == IF HasRight(y, i) THEN RightOf(y, i) - 1 ELSE Len(y)
RunLen(y, i) == RunLast(y, i) - RunFirst(y, i) + 1

\* C12 (as claimed): with a limit L, a run of missing values longer than L is left
\* unfilled, and a run of at most L that has a preceding (forward) or following
\* (backward) valid value is entirely filled with that value.
C12_LimitedFillAsClaimed ==
    ((ForwardCall \/ BackwardCall) /\ tsCall.limit.some)
        => /\ TsOk
           /\ \A i \in (1..Len(TsIn)) \ ValidPos(TsIn) :
                 IF RunLen(TsIn, i) > tsCall.limit.val THEN IsNaN(Filled[i])
                 ELSE /\ (ForwardCall /\ HasLeft(TsIn, i))
                            => Filled[i] = TsIn[LeftOf(TsIn, i)]
                      /\ (BackwardCall /\ HasRight(TsIn, i))
                            => Filled[i] = TsIn[RightOf(TsIn, i)]

\* C12 (amended): forward (backward) fill with a limit L gives a missing position
\* the preceding (following) valid value exactly when there is one at most L
\* positions away: a run of at most L is entirely filled, of a longer run only the L
\* positions nearest that value, and a run with no such value not at all. Without a
\* limit every run that has such a value is entirely filled. Valid positions keep
\* their values.
C12_LimitedFill ==
    (ForwardCall \/ BackwardCall)
        => /\ TsOk
           /\ Len(Filled) = Len(TsIn)
           /\ \A i \in ValidPos(TsIn) : Filled[i] = TsIn[i]
           /\ \A i \in (1..Len(TsIn)) \ ValidPos(TsIn) :
                 /\ ForwardCall =>
                       IF HasLeft(TsIn, i)
                          /\ (tsCall.limit.some => i - LeftOf(TsIn, i) <= tsCall.limit.val)
                       THEN Filled[i] = TsIn[LeftOf(TsIn, i)]
                       ELSE IsNaN(Filled[i])
                 /\ BackwardCall =>
                       IF HasRight(TsIn, i)
                          /\ (tsCall.limit.some => RightOf(TsIn, i) - i <= tsCall.limit.val)
                       THEN Filled[i] = TsIn[RightOf(TsIn, i)]
                       ELSE IsNaN(Filled[i])

\* C12 witness: forward fill with limit 1 of a run of 2 after a valid value fills
\* the first position of the run only.
W_C12_RunBeyondLimit ==
    /\ ForwardCall
    /\ tsCall.limit = Some(1)
    /\ TsIn = <<F(3), NaN, NaN>>
    /\ Filled = <<F(3), F(3), NaN>>

\* C13 (as claimed): the mask of fill_missing has the input's length and is true
\* exactly at the positions whose value was filled: a missing position that stays
\* missing is not marked.
C13_MaskMarksFilled ==
    (TsDone("fill_missing_data") /\ TsOk)
        => /\ Len(tsHeap[tsR.mask]) = Len(TsIn)
           /\ \A i \in 1..Len(TsIn) :
                 tsHeap[tsR.mask][i]
                    <=> (IsNaN(TsIn[i]) /\ ~IsNaN(tsHeap[tsR.filled][i]))

RECURSIVE SumOver(_, _, _)
SumOver(y, a, b) == IF a > b THEN F(0) ELSE FAdd(y[a], SumOver(y, a + 1, b))

WindowMean(y, a, b) == FDiv(SumOver(y, a, b), F(b - a + 1))

\* C14 (as claimed): smooth with a window >= 1 returns a series of the input's
\* length, also when a moving_average window is larger than the series; the output
\* of moving_average at (0-based) position i >= window-1 is the mean of inputs
\* i-window+1..i, and the first window-1 outputs repeat the first computed mean.
C14_SmoothKeepsLength ==
    (/\ TsDone("smooth_data")
     /\ tsCall.method = "moving_average"
     /\ tsCall.window_size >= 1
     /\ Len(TsIn) >= 1)
        => /\ TsOk
           /\ Len(tsHeap[tsR.data]) = Len(TsIn)
           /\ \A i \in tsCall.window_size..Len(TsIn) :
                 tsHeap[tsR.data][i] = WindowMean(TsIn, i - tsCall.window_size + 1, i)
           /\ \A i \in 1..(tsCall.window_size - 1) :
                 i <= Len(TsIn) =>
                    tsHeap[tsR.data][i] = WindowMean(TsIn, 1, tsCall.window_size)

ExpCall == TsDone("smooth_data") /\ tsCall.method = "exponential"

\* The alpha the call smooths with: the caller's, or the default.
AlphaOf(call) == IF call.kwargs.alpha.some THEN call.kwargs.alpha.val ELSE DefaultAlpha

InUnitInterval(alpha) == FLt(F(0), alpha) /\ FLe(alpha, F(1))

\* y obeys y[0] = x[0] and y[i] = alpha*x[i] + (1-alpha)*y[i-1].
Recurrence(x, y, alpha) ==
    /\ Len(y) = Len(x)
    /\ Len(x) >= 1 => y[1] = x[1]
    /\ \A i \in 2..Len(x) :
          y[i] = FAdd(FMul(alpha, x[i]), FMul(FSub(F(1), alpha), y[i - 1]))

UnknownTag ==
    \/ tsCall.fn \in {"smooth_data", "fill_missing_data", "detect_outliers"}
          /\ tsCall.method = "bogus"
    \/ tsCall.fn = "spline_interpolate" /\ tsCall.kind = "bogus"
    \/ tsCall.fn = "decompose_trend" /\ tsCall.model = "bogus"

\* C16 (as claimed): smooth, fill_missing, interpolate, decompose and
\* detect_outliers given an unknown method / kind / model fail with a validation
\* error for every series and never return a result, fill_missing also when the
\* series has no missing value.
C16_UnknownTagRejected ==
    (tsPc = "done" /\ UnknownTag)
        => (tsR.kind = "raise" /\ tsR.exc = "ValueError")

InterpCall == TsDone("spline_interpolate") \/ TsDone("resample_timeseries")

FinitePos(y) == {i \in 1..Len(y) : IsFinite(y[i])}

InsufficientData ==
    tsR = Raise("ValueError",
                IF tsCall.fn = "spline_interpolate" THEN MsgNeed2Interp ELSE MsgNeed2)

\* The kind of interpolant asked for.
KindOf(call) == IF call.fn = "spline_interpolate" THEN call.kind ELSE call.method

\* The call failed because the interpolant has too few points: the function's own
\* error, or interp1d's for a spline kind.
LacksPoints ==
    /\ tsR.kind = "raise"
    /\ tsR.exc = "ValueError"
    /\ tsR.msg.text \in {MsgNeed2Interp.text, MsgNeed2.text, MsgSplineEntries(0).text}

Requested(call) ==
    IF call.fn = "resample_timeseries" THEN call.target_points
    ELSE IF call.num_points.some THEN call.num_points.val
    ELSE 2 * Len(TsIn)

Least(S) == CHOOSE i \in S : \A j \in S : i <= j
Greatest(S) == CHOOSE i \in S : \A j \in S : j <= i

FirstRetained == tsHeap[2][Least(FinitePos(TsIn))]
LastRetained == tsHeap[2][Greatest(FinitePos(TsIn))]

EvenlySpaced(x) ==
    \A i \in 1..(Len(x) - 2) : FSub(x[i + 1], x[i]) = FSub(x[i + 2], x[i + 1])

\* C18 (as claimed): on success resample returns target_points samples and
\* interpolate num_points samples (twice the input length when omitted); the new
\* index is evenly spaced, starts at the first retained index value and ends at the
\* last retained index value.
C18_SamplingAsClaimed ==
    (InterpCall /\ TsOk)
        => /\ Len(tsHeap[tsR.x_new]) = Requested(tsCall)
           /\ Len(tsHeap[tsR.y_new]) = Requested(tsCall)
           /\ EvenlySpaced(tsHeap[tsR.x_new])
           /\ Requested(tsCall) >= 1 =>
                 /\ tsHeap[tsR.x_new][1] = FirstRetained
                 /\ tsHeap[tsR.x_new][Requested(tsCall)] = LastRetained

\* C18 (amended): on success resample returns target_points samples and interpolate
\* num_points samples (twice the input length, counting dropped points, when
\* omitted); the new index is evenly spaced; when 2 or more samples are asked for it
\* starts at the first retained index value and ends at the last one; a single
\* sample is at the first retained index value.
C18_Sampling ==
    (InterpCall /\ TsOk)
        => /\ Len(tsHeap[tsR.x_new]) = Requested(tsCall)
           /\ Len(tsHeap[tsR.y_new]) = Requested(tsCall)
           /\ EvenlySpaced(tsHeap[tsR.x_new])
           /\ Requested(tsCall) >= 1 => tsHeap[tsR.x_new][1] = FirstRetained
           /\ Requested(tsCall) >= 2 => tsHeap[tsR.x_new][Requested(tsCall)] = LastRetained

\* C18 witness: interpolate without num_points of [NaN, 1, 3] over the index
\* [0, 1, 2] returns 6 samples from 1 to 2.
W_C18_DefaultCount ==
    /\ TsDone("spline_interpolate") /\ TsOk
    /\ ~tsCall.num_points.some
    /\ TsIn = <<NaN, F(1), F(3)>>
    /\ tsHeap[2] = <<F(0), F(1), F(2)>>
    /\ Len(tsHeap[tsR.x_new]) = 6
    /\ tsHeap[tsR.x_new][1] = F(1)
    /\ tsHeap[tsR.x_new][6] = F(2)

\* The arrays a result refers to.
RetRefs(r) == IF r.kind = "ok" THEN {r[f] : f \in DOMAIN r \ {"kind"}} ELSE {}

\* C19 (as claimed): a transform leaves the caller's arrays as they were, and every
\* series it returns, decompose's 'original' included, is a new array and not one of
\* the caller's.
C19_NoSharedBuffer ==
    [][tsPc = "call" =>
          /\ \A ref \in 1..Len(tsHeap) : tsHeap'[ref] = tsHeap[ref]
          /\ RetRefs(tsR') \cap (1..Len(tsHeap)) = {}]_vars

----------------------------------------------------------------------------
(* export_to_csv: the per-series results of a batch as CSV rows *)

MaxExport == 3      \* largest number of results exported

\* dict.get(key, default)
GetOr(d, key, default) == IF key \in DOMAIN d THEN d[key] ELSE default

\* The metric keys of a batch result, in the order Python's sorted() gives strings
\* (by code point: digits, then upper case, then lower case).
KeyOrder ==
    <<"Cor", "KGE2009", "KGE2012", "MAE", "MARE", "MuP", "MuT", "NRMSE", "NSC",
      "PBIAS", "PERS", "Po", "Pu", "R2", "RMSE", "RSR", "StdP", "StdT", "d", "d1",
      "sMAPE">>

KeyPos(k) == CHOOSE i \in 1..Len(KeyOrder) : KeyOrder[i] = k

\* The keys of S, in reverse order.
SortedKeysReversed(S) ==
    LET n == Len(KeyOrder) IN
    SelectSeq([i \in 1..n |-> KeyOrder[n + 1 - i]], LAMBDA k : k \in S)

\* sorted(metric_names)
SortedKeys(S) == SelectSeq(KeyOrder, LAMBDA k : k \in S)

\* result.get('success') and 'metrics' in result
HasMetrics(result) == GetOr(result, "success", FALSE) /\ "metrics" \in DOMAIN result

\* The metric keys of every entry that carries metrics, successful or not.
MetricNamesOfAll(results) ==
    UNION {DOMAIN results[i].metrics : i \in {j \in 1..Len(results) : "metrics" \in DOMAIN results[j]}}

\* The set metric_names after the first loop.
MetricNames(results) ==
    UNION {DOMAIN results[i].metrics : i \in {j \in 1..Len(results) : HasMetrics(results[j])}}

Fieldnames(metric_names) == <<"name", "success", "n_points">> \o metric_names \o <<"error">>

\* str() of the values a row holds: a bool, an int, a float with a whole value or
\* none, and '' or another string, which stays as it is.
PyStrBool(b) == IF b THEN "True" ELSE "False"
PyStrInt(n) == ToString(n)
PyStrFloat(x) ==
    IF IsNaN(x) THEN "nan"
    ELSE IF ~IsFinite(x) THEN (IF x[2] > 0 THEN "inf" ELSE "-inf")
    ELSE ToString(x[2]) \o ".0"

\* What DictWriter writes under column key for one result: the row dict's value, and
\* the empty restval for a metric column the row dict has no key for.
Cell(result, key) ==
    IF key = "name" THEN GetOr(result, "name", "")
    ELSE IF key = "success" THEN PyStrBool(GetOr(result, "success", FALSE))
    ELSE IF key = "n_points"
    THEN (IF "n_points" \in DOMAIN result THEN PyStrInt(result.n_points) ELSE "")
    ELSE IF key = "error" THEN GetOr(result, "error", "")
    ELSE IF HasMetrics(result) /\ key \in DOMAIN result.metrics
    THEN PyStrFloat(result.metrics[key])
    ELSE ""

WriteRow(result, fieldnames) == [c \in 1..Len(fieldnames) |-> Cell(result, fieldnames[c])]

\* The lines of the CSV text, each the sequence of its cells (the joining by commas
\* and line ends, and the quoting of cells, are left to the csv writer).
ExportRows(results, include_header, fieldnames) ==
    (IF include_header THEN <<fieldnames>> ELSE <<>>)
    \o [i \in 1..Len(results) |-> WriteRow(results[i], fieldnames)]

export_to_csv(results, include_header) ==
    ExportRows(results, include_header, Fieldnames(SortedKeys(MetricNames(results))))

\* Per-series results as analyze_batch gives them: a failed entry has name and
\* error, a successful one name, n_points and metrics; and, as a caller may pass,
\* a failed entry that carries metrics, successful entries with fewer metric keys,
\* and an entry without name.
ExEntries ==
    { [name |-> "A", success |-> FALSE, error |-> "Length mismatch"],
      [name |-> "B", success |-> FALSE, error |-> "boom", metrics |-> [d |-> F(1)]],
      [name |-> "C", success |-> TRUE, n_points |-> 2,
       metrics |-> [MAE |-> F(0), RMSE |-> F(2)]],
      [name |-> "D", success |-> TRUE, n_points |-> 3,
       metrics |-> [R2 |-> NaN, MAE |-> F(2)]],
      [success |-> TRUE, n_points |-> 2, metrics |-> [RMSE |-> PInf]],
      [name |-> "F", success |-> TRUE, n_points |-> 0] }

ExInit ==
    /\ exResults \in SeqsUpTo(ExEntries, MaxExport)
    /\ exHeader \in BOOLEAN
    /\ exOut = <<>>
    /\ exPc = "call"
    /\ EmIdle
    /\ BaIdle
    /\ CrIdle
    /\ TsIdle
    /\ SvcIdle

ExportToCsv ==
    /\ exPc = "call"
    /\ exOut' = export_to_csv(exResults, exHeader)
    /\ exPc' = "done"
    /\ UNCHANGED <<exResults, exHeader>>
    /\ UNCHANGED <<emVars, baVars, crVars, tsVars, svcVars>>

ExNext == ExportToCsv

SpecExport == ExInit /\ [][ExNext]_vars

----------------------------------------------------------------------------
(* Properties of export_to_csv (SpecExport) *)

ExDone == exPc = "done"

Succeeded(e) == "success" \in DOMAIN e /\ e.success

\* The metric keys present across the successful entries.
SuccessfulKeys ==
    UNION {DOMAIN exResults[i].metrics :
              i \in {j \in 1..Len(exResults) :
                        Succeeded(exResults[j]) /\ "metrics" \in DOMAIN exResults[j]}}

\* The column of metric key k: after name, success, n_points and the keys before it.
ColumnOf(k) == 3 + Cardinality({q \in SuccessfulKeys : KeyPos(q) <= KeyPos(k)})

ErrorColumn == 4 + Cardinality(SuccessfulKeys)

\* The row written for result i.
RowOf(i) == exOut[i + (IF exHeader THEN 1 ELSE 0)]

\* C20: export_to_csv gives one row per result in input order (after the header
\* row when asked for), with the columns name, success, n_points, the metric keys
\* present across successful entries in sorted order, and error; a metric a
\* successful entry does not have and every metric column of a failed entry are
\* empty, as are n_points of a failed entry and error of a successful one.
C20_CsvLayout ==
    ExDone
        => /\ Len(exOut) = Len(exResults) + (IF exHeader THEN 1 ELSE 0)
           /\ exHeader =>
                 /\ Len(exOut[1]) = ErrorColumn
                 /\ SubSeq(exOut[1], 1, 3) = <<"name", "success", "n_points">>
                 /\ \A k \in SuccessfulKeys : exOut[1][ColumnOf(k)] = k
                 /\ exOut[1][ErrorColumn] = "error"
           /\ \A i \in 1..Len(exResults) :
                 /\ Len(RowOf(i)) = ErrorColumn
                 /\ RowOf(i)[1] = GetOr(exResults[i], "name", "")
                 /\ RowOf(i)[2] = IF Succeeded(exResults[i]) THEN "True" ELSE "False"
                 /\ \A k \in SuccessfulKeys :
                       RowOf(i)[ColumnOf(k)] =
                          IF /\ Succeeded(exResults[i])
                             /\ "metrics" \in DOMAIN exResults[i]
                             /\ k \in DOMAIN exResults[i].metrics
                          THEN PyStrFloat(exResults[i].metrics[k])
                          ELSE ""
                 /\ IF Succeeded(exResults[i])
                    THEN /\ RowOf(i)[3] = PyStrInt(exResults[i].n_points)
                         /\ RowOf(i)[ErrorColumn] = ""
                    ELSE /\ RowOf(i)[3] = ""
                         /\ RowOf(i)[ErrorColumn] = exResults[i].error

\* C20 witness: a failed entry that carries metric d, then successful entries with
\* the keys {MAE, RMSE} and {MAE, R2}, exported with the header.
W_C20_MixedKeys ==
    /\ ExDone
    /\ exHeader
    /\ Len(exResults) = 3
    /\ GetOr(exResults[1], "name", "") = "B"
    /\ GetOr(exResults[2], "name", "") = "C"
    /\ GetOr(exResults[3], "name", "") = "D"
    /\ exOut = << <<"name", "success", "n_points", "MAE", "R2", "RMSE", "error">>,
                  <<"B", "False", "", "", "", "", "boom">>,
                  <<"C", "True", "2", "0.0", "", "2.0", "">>,
                  <<"D", "True", "3", "2.0", "nan", "", "">> >>

----------------------------------------------------------------------------
(* Properties of compare_runs, continued (SpecCompare) *)

\* The successful entries that carry the metric, in input order.
Carriers(results, metric_name) ==
    SelectSeq(results, LAMBDA r : r.success /\ DictHas(r.metrics, metric_name))

\* C27 (as claimed): in every compare_runs result num_series is the number of
\* successful entries, and the ranking of each compared metric holds exactly one
\* entry per successful series that carries the metric, with ranks 1..k, k the
\* number of values entering the statistics, also when two series share a name.
C27_RankingIsPermutation ==
    CrCompared
        => /\ crOut.num_series =
                 Cardinality({i \in 1..Len(crResults) : crResults[i].success})
           /\ \A m \in 1..Len(crOut.rankings) :
                 LET metric_name == crOut.rankings[m][1]
                     rk == crOut.rankings[m][2].ranking
                     have == Carriers(crResults, metric_name)
                 IN  /\ Len(rk) = Len(have)
                     /\ \A i \in 1..Len(rk) : rk[i].rank = i
                     /\ \A p \in 1..Len(have) :
                           Cardinality({i \in 1..Len(rk) :
                                           /\ rk[i].name = have[p].name
                                           /\ rk[i].value
                                                 = DictGet(have[p].metrics, metric_name)})
                              = Cardinality({q \in 1..Len(have) :
                                                /\ have[q].name = have[p].name
                                                /\ DictGet(have[q].metrics, metric_name)
                                                      = DictGet(have[p].metrics, metric_name)})

----------------------------------------------------------------------------
(* The serializers of batch.py, called twice on the same list of results *)

MaxClock == 1       \* largest second, and largest microsecond, of the clock

RECURSIVE Pow10(_)
Pow10(d) == IF d = 0 THEN 1 ELSE 10 * Pow10(d - 1)

RECURSIVE ZeroPadded(_, _)
ZeroPadded(n, d) == IF d = 0 THEN "" ELSE ZeroPadded(n \div 10, d - 1) \o ToString(n % 10)

\* n / den rounded to the nearest integer, ties to even (n >= 0, den > 0).
RoundHalfEven(n, den) ==
    IF 2 * (n % den) > den \/ (2 * (n % den) = den /\ (n \div den) % 2 = 1)
    THEN n \div den + 1
    ELSE n \div den

FixedDigits(scaled, d) == ToString(scaled \div Pow10(d)) \o "." \o ZeroPadded(scaled % Pow10(d), d)

\* f"{x:.<d>f}"
FormatFixed(x, d) ==
    IF IsNaN(x) THEN "nan"
    ELSE IF ~IsFinite(x) THEN (IF x[2] > 0 THEN "inf" ELSE "-inf")
    ELSE (IF x[2] < 0 THEN "-" ELSE "")
         \o FixedDigits(RoundHalfEven((IF x[2] < 0 THEN -x[2] ELSE x[2]) * Pow10(d), x[3]), d)

\* datetime.isoformat() + 'Z' of the clock reading: the microseconds are left out
\* when they are 0.
IsoFormatZ(now) == IF now[2] = 0 THEN <<"T", now[1], "Z">> ELSE <<"T", now[1], ".", now[2], "Z">>

\* A formatting of the clock reading with its microseconds.
StrfTimeMicro(now) == <<now[1], now[2], " UTC">>

\* strftime('%Y-%m-%d %H:%M:%S') + ' UTC' of the clock reading: whole seconds.
StrfTime(now) == <<now[1], " UTC">>

Truthy(result) == GetOr(result, "success", FALSE)

CountSuccessful(results) == Cardinality({i \in 1..Len(results) : Truthy(results[i])})

\* export_to_json(results, pretty) at clock reading now: the text json.dumps gives
\* for the dict output, as that dict and the indent.
export_to_json(results, pretty, now) ==
    [kind |-> "json",
     indent |-> IF pretty THEN 2 ELSE 0,
     export_timestamp |-> IsoFormatZ(now),
     num_analyses |-> Len(results),
     num_successful |-> CountSuccessful(results),
     num_failed |-> Len(results) - CountSuccessful(results),
     results |-> results]

ReportKeys == <<"RMSE", "NSC", "Cor", "KGE2012", "PBIAS">>

\* The first thing a successful entry lacks that lines 285-294 read, or "" if none.
MissingOfSuccessful(result) ==
    IF "name" \notin DOMAIN result THEN "name"
    ELSE IF "n_points" \notin DOMAIN result THEN "n_points"
    ELSE IF "metrics" \notin DOMAIN result THEN "metrics"
    ELSE IF \E k \in 1..Len(ReportKeys) : ReportKeys[k] \notin DOMAIN result.metrics
    THEN ReportKeys[CHOOSE k \in 1..Len(ReportKeys) :
                       /\ ReportKeys[k] \notin DOMAIN result.metrics
                       /\ \A j \in 1..(k - 1) : ReportKeys[j] \in DOMAIN result.metrics]
    ELSE ""

\* Lines 285-294: the lines of one successful entry.
SuccessLines(result) ==
    << "\n" \o result.name \o ":",
       "  Data points: " \o ToString(result.n_points),
       "  RMSE:     " \o FormatFixed(result.metrics.RMSE, 4),
       "  NSE/NSC:  " \o FormatFixed(result.metrics.NSC, 4),
       "  R:        " \o FormatFixed(result.metrics.Cor, 4),
       "  KGE2012:  " \o FormatFixed(result.metrics.KGE2012, 4),
       "  PBIAS:    " \o FormatFixed(result.metrics.PBIAS, 2) \o "%" >>

\* Lines 303-304: the lines of one failed entry.
FailureLines(result) ==
    << "\n" \o result.name \o ":",
       "  Error: " \o GetOr(result, "error", "Unknown error") >>

RECURSIVE Flatten(_)
Flatten(ss) == IF ss = <<>> THEN <<>> ELSE Head(ss) \o Flatten(Tail(ss))

ReportOf(results, now, successful, failed) ==
    IF \E i \in 1..Len(successful) : MissingOfSuccessful(successful[i]) # ""
    THEN Raise("KeyError",
               Msg(MissingOfSuccessful(
                      successful[CHOOSE i \in 1..Len(successful) :
                                    /\ MissingOfSuccessful(successful[i]) # ""
                                    /\ \A j \in 1..(i - 1) :
                                          MissingOfSuccessful(successful[j]) = ""])))
    ELSE IF \E i \in 1..Len(failed) : "name" \notin DOMAIN failed[i]
    THEN Raise("KeyError", Msg("name"))
    ELSE [kind |-> "report",
          head |-> <<"====", "TIME SERIES ANALYSIS BATCH REPORT", "====">>,
          generated |-> StrfTime(now),
          counts |-> <<Len(results), Len(successful), Len(failed)>>,
          lines |->
             (IF successful = <<>> THEN <<>>
              ELSE <<"----", "SUCCESSFUL ANALYSES", "----">>
                   \o Flatten([i \in 1..Len(successful) |-> SuccessLines(successful[i])]))
             \o (IF failed = <<>> THEN <<>>
                 ELSE <<"\n----", "FAILED ANALYSES", "----">>
                      \o Flatten([i \in 1..Len(failed) |-> FailureLines(failed[i])]))
             \o <<"\n====">>]

\* generate_summary_report(results) at clock reading now: the lines of the report
\* (the rules of 80 characters abbreviated), or the KeyError of a missing key.
generate_summary_report(results, now) ==
    ReportOf(results, now,
             SelectSeq(results, LAMBDA r : Truthy(r)),
             SelectSeq(results, LAMBDA r : ~Truthy(r)))

\* Per-series results: as analyze_batch gives them, and entries that lack keys.
SeEntries ==
    { [name |-> "A", success |-> FALSE, error |-> "Length mismatch"],
      [name |-> "B", success |-> FALSE],
      [name |-> "C", success |-> TRUE, n_points |-> 2,
       metrics |-> [RMSE |-> Mk(1, 3), NSC |-> F(1), Cor |-> NaN,
                    KGE2012 |-> Mk(-1, 8), PBIAS |-> Mk(5, 8)]],
      [name |-> "D", success |-> TRUE, n_points |-> 3, metrics |-> [RMSE |-> F(2)]] }

SeCalls ==
    { [fn |-> f, results |-> rs, flag |-> b] :
         f \in {"export_to_csv", "export_to_json", "generate_summary_report"},
         rs \in SeqsUpTo(SeEntries, MaxExport),
         b \in BOOLEAN }

SeInit ==
    /\ seCall \in SeCalls
    /\ seNow \in {<<0, 0>>, <<0, 1>>}
    /\ seOuts = <<>>
    /\ sePc = "run"
    /\ EmIdle /\ BaIdle /\ CrIdle /\ TsIdle /\ ExIdle
    /\ CaIdle /\ ApIdle /\ UpIdle

\* What the function called returns at clock reading now.
Serialized(call, now) ==
    IF call.fn = "export_to_csv"
    THEN [kind |-> "csv", rows |-> export_to_csv(call.results, call.flag)]
    ELSE IF call.fn = "export_to_json" THEN export_to_json(call.results, call.flag, now)
    ELSE generate_summary_report(call.results, now)

\* The function is called (a first and a second time).
SeCallAgain ==
    /\ sePc = "run"
    /\ Len(seOuts) < 2
    /\ seOuts' = Append(seOuts, [at |-> seNow, out |-> Serialized(seCall, seNow)])
    /\ UNCHANGED <<seCall, seNow, sePc>>
    /\ UNCHANGED <<emVars, baVars, crVars, tsVars, exVars, caVars, apVars, upVars>>

\* Time passes: the next microsecond, or the next second.
SeTick ==
    /\ sePc = "run"
    /\ \/ seNow[2] < MaxClock /\ seNow' = <<seNow[1], seNow[2] + 1>>
       \/ seNow[1] < MaxClock /\ seNow' = <<seNow[1] + 1, 0>>
    /\ UNCHANGED <<seCall, seOuts, sePc>>
    /\ UNCHANGED <<emVars, baVars, crVars, tsVars, exVars, caVars, apVars, upVars>>

SeNext == SeCallAgain \/ SeTick

SpecSerialize == SeInit /\ [][SeNext]_vars

----------------------------------------------------------------------------
(* Properties of the serializers (SpecSerialize) *)

SeTwice == sePc = "run" /\ Len(seOuts) = 2

\* The output without the time it was made at.
Timeless(out) ==
    IF out.kind = "json" THEN [out EXCEPT !.export_timestamp = <<>>]
    ELSE IF out.kind = "report" THEN [out EXCEPT !.generated = <<>>]
    ELSE out

----------------------------------------------------------------------------
(* The result cache of cache.py: cache_result, invalidate_cache, _memory_cache *)

MaxOps == 4         \* calls and invalidations in one run
MaxAdvance == 4     \* advances of the clock in one run
TimeStep == 100     \* seconds the clock advances by

MemoryTtl == 300    \* _memory_cache = TTLCache(maxsize=100, ttl=300)
DefaultTtl == 300   \* cache_result(ttl: int = 300, ...)

\* Decorated functions: name is func.__name__ in pieces, ttl the decorator's ttl.
\* Functions 1 and 2 have the same __name__ (they live in different modules).
CaFns ==
    { [id |-> 1, name |-> <<"metrics">>, ttl |-> DefaultTtl],
      [id |-> 2, name |-> <<"metrics">>, ttl |-> 100],
      [id |-> 3, name |-> <<"metrics", "_all">>, ttl |-> 600] }

\* Arguments of a call: one positional argument, a Python type and its items.
CaArgs ==
    { <<"list", <<1, 2>>>>, <<"tuple", <<1, 2>>>>, <<"ndarray", <<1, 2>>>>,
      <<"set", <<1>>>> }

\* What the undecorated function returns: these functions tell their arguments
\* apart (say, return type(x).__name__ and the items).
Apply(fn, arg) == <<fn.id, arg>>

\* serialize_value: an ndarray becomes a list.
serialize_value(v) == IF v[1] = "ndarray" THEN <<"list", v[2]>> ELSE v

\* json.dumps of one value: a list and a tuple both give a JSON array; a set is
\* not JSON serializable.
JsonDumps(v) ==
    IF v[1] = "set" THEN Raise("TypeError", Msg("Object of type set is not JSON serializable"))
    ELSE [kind |-> "ok", text |-> <<"[", v[2], "]">>]

\* generate_cache_key(prefix, arg): prefix, ':' and the md5 of the JSON text (the
\* digest stands for the text it is the digest of).
generate_cache_key(prefix, arg) ==
    IF JsonDumps(serialize_value(arg)).kind = "raise" THEN JsonDumps(serialize_value(arg))
    ELSE [kind |-> "ok",
          key |-> prefix \o <<":", JsonDumps(serialize_value(arg)).text>>]

\* str.startswith
StartsWith(s, prefix) == Len(prefix) <= Len(s) /\ SubSeq(s, 1, Len(prefix)) = prefix

\* The entries of the TTLCache not expired at time now.
Live(store, now) == {e \in store : now < e.stored + MemoryTtl}

CaLookup(store, now, key) == {e \in Live(store, now) : e.key = key}

\* wrapper(*args) of cache_result(ttl)(func), use_redis False: the store after it
\* and what it returns.
CaWrapper(store, now, fn, arg, k) ==
    IF k.kind = "raise"
    THEN [store |-> store, hit |-> FALSE, stored |-> now, origin |-> <<fn.id, arg>>, ret |-> k]
    ELSE IF CaLookup(store, now, k.key) # {}
    THEN LET e == CHOOSE e \in CaLookup(store, now, k.key) : TRUE
         IN  [store |-> store, hit |-> TRUE, stored |-> e.stored, origin |-> e.origin,
              ret |-> [kind |-> "ok", value |-> e.value]]
    ELSE [store |-> Live(store, now)
                       \cup {[key |-> k.key, value |-> Apply(fn, arg), stored |-> now,
                              origin |-> <<fn.id, arg>>]},
          hit |-> FALSE, stored |-> now, origin |-> <<fn.id, arg>>,
          ret |-> [kind |-> "ok", value |-> Apply(fn, arg)]]

\* invalidate_cache(prefix) on the memory cache; prefix <<>> stands for None.
invalidate_cache(store, now, prefix) ==
    IF prefix = <<>> THEN {}
    ELSE {e \in Live(store, now) : ~StartsWith(e.key, prefix)}

CaInit ==
    /\ caStore = {}
    /\ caNow = 0
    /\ caLast = [op |-> "none"]
    /\ caOps = 0
    /\ EmIdle /\ BaIdle /\ CrIdle /\ TsIdle /\ ExIdle
    /\ SeIdle /\ ApIdle /\ UpIdle

CaCallWith(fn, arg, w) ==
    /\ caStore' = w.store
    /\ caLast' = [op |-> "call", fn |-> fn, arg |-> arg, hit |-> w.hit,
                  stored |-> w.stored, origin |-> w.origin, ret |-> w.ret]

\* A decorated function is called.
CaCall ==
    /\ caOps < MaxOps
    /\ \E fn \in CaFns, arg \in CaArgs :
          CaCallWith(fn, arg,
                     CaWrapper(caStore, caNow, fn, arg, generate_cache_key(fn.name, arg)))
    /\ caOps' = caOps + 1
    /\ UNCHANGED caNow
    /\ UNCHANGED <<emVars, baVars, crVars, tsVars, exVars, seVars, apVars, upVars>>

\* invalidate_cache is called with None or with the name of a function.
CaInvalidate ==
    /\ caOps < MaxOps
    /\ \E prefix \in {<<>>} \cup {fn.name : fn \in CaFns} :
          /\ caStore' = invalidate_cache(caStore, caNow, prefix)
          /\ caLast' = [op |-> "invalidate", prefix |-> prefix, before |-> Live(caStore, caNow)]
    /\ caOps' = caOps + 1
    /\ UNCHANGED caNow
    /\ UNCHANGED <<emVars, baVars, crVars, tsVars, exVars, seVars, apVars, upVars>>

\* Time passes.
CaAdvance ==
    /\ caNow < MaxAdvance * TimeStep
    /\ caNow' = caNow + TimeStep
    /\ caLast' = [op |-> "advance"]
    /\ UNCHANGED <<caStore, caOps>>
    /\ UNCHANGED <<emVars, baVars, crVars, tsVars, exVars, seVars, apVars, upVars>>

CaNext == CaCall \/ CaInvalidate \/ CaAdvance

SpecCache == CaInit /\ [][CaNext]_vars

----------------------------------------------------------------------------
(* Properties of the result cache (SpecCache) *)

\* C22: a call of a wrapped function returns what the unwrapped function returns
\* for the same arguments, and a cache hit occurs only for an entry stored by a
\* call of the same function with equal arguments.
C22_MemoizationTransparent ==
    caLast.op = "call"
        => /\ caLast.ret = [kind |-> "ok", value |-> Apply(caLast.fn, caLast.arg)]
           /\ caLast.hit => caLast.origin = <<caLast.fn.id, caLast.arg>>

\* C25: a result cached by a function decorated with cache_result(ttl=t) is served
\* from the cache (to a later call of that function) only until t seconds after it
\* was stored.
C25_ServedUntilTtl ==
    (caLast.op = "call" /\ caLast.hit /\ caLast.origin[1] = caLast.fn.id)
        => caNow < caLast.stored + caLast.fn.ttl

\* C26: invalidate_cache(prefix) removes the entries of the function named prefix
\* and leaves every other entry as it was, also those of a function whose name
\* starts with prefix; invalidate_cache(None) empties the cache.
C26_InvalidateFrame ==
    caLast.op = "invalidate"
        => Live(caStore, caNow) =
              IF caLast.prefix = <<>> THEN {}
              ELSE {e \in caLast.before :
                       \A fn \in CaFns :
                          fn.name = caLast.prefix
                             => \A arg \in CaArgs :
                                   generate_cache_key(fn.name, arg).kind = "ok"
                                      => e.key # generate_cache_key(fn.name, arg).key}

----------------------------------------------------------------------------
(* The service of main.py with the database of database.py and stats.py.
   Requests are served by workers that share the database: the steps of the
   requests in progress interleave between database statements (one worker, as
   started by uvicorn.run, serves them one after the other, which is one of the
   interleavings). *)

MaxReqs == 2        \* analyze requests in one run
MaxHistory == 2     \* largest limit of a history request

NoneS == "<None>"   \* None, where the other values are strings

\* The workers that serve requests, each one request at a time.
ApWorkers == {"w1", "w2"}

ApUsers == {NoneS, "u"}
ApHeaders == {NoneS, "s"}

\* Request bodies: equal lengths, and 3 predicted values against 2 targets.
ApBodies ==
    { [predicted |-> <<F(1), F(2)>>, target |-> <<F(1), F(3)>>],
      [predicted |-> <<F(1), F(2), F(3)>>, target |-> <<F(1), F(2)>>] }

NoResp == [status |-> 0, detail |-> [lead |-> "", text |-> "", args |-> <<>>]]
OkResp == [status |-> 200, detail |-> [lead |-> "", text |-> "", args |-> <<>>]]

\* analyze_time_series without the length check.
ValidateNothing(P, T) == [kind |-> "ok"]

\* main.py:159-164: the length check of analyze_time_series.
ValidateLengths(P, T) ==
    IF Len(P) # Len(T)
    THEN [kind |-> "raise", exc |-> "HTTPException", status |-> 400,
          msg |-> MsgLengthMismatch(Len(P), Len(T))]
    ELSE [kind |-> "ok"]

\* main.py:214-217: the except clauses of analyze_time_series. str(e) of an
\* HTTPException is "<status_code>: <detail>".
ExceptClause(e) ==
    IF e.exc = "ValueError"
    THEN [status |-> 400, detail |-> [lead |-> "", text |-> e.msg.text, args |-> e.msg.args]]
    ELSE IF e.exc = "HTTPException"
    THEN [status |-> 500,
          detail |-> [lead |-> "Internal error: " \o ToString(e.status) \o ": ",
                      text |-> e.msg.text, args |-> e.msg.args]]
    ELSE [status |-> 500,
          detail |-> [lead |-> "Internal error: ", text |-> e.msg.text, args |-> e.msg.args]]

\* main.py:200: session_id = x_session_id or str(uuid.uuid4()); the uuid of
\* request r is unlike every other.
SessionIdOf(header, r) == IF header = NoneS THEN "uuid" \o ToString(r) ELSE header

\* stats.py:52, 42: query(UserSession).filter(session_id == ...).first(), as the
\* position of the row, 0 for None.
FirstSession(sessions, session_id) ==
    IF \E i \in 1..Len(sessions) : sessions[i].session_id = session_id
    THEN CHOOSE i \in 1..Len(sessions) :
            /\ sessions[i].session_id = session_id
            /\ \A j \in 1..(i - 1) : sessions[j].session_id # session_id
    ELSE 0

\* main.py:155-201, stats.py:52: what analyze_time_series does up to the query of
\* get_or_create_session.
AnalyzeBegin(req, r, sessions, checked, metrics) ==
    IF checked.kind = "raise"
    THEN [req EXCEPT !.pc = "done", !.resp = ExceptClause(checked)]
    ELSE IF metrics.kind = "raise"
    THEN [req EXCEPT !.pc = "done", !.resp = ExceptClause(metrics)]
    ELSE [req EXCEPT !.sid = SessionIdOf(req.header, r),
                     !.pc = IF FirstSession(sessions, SessionIdOf(req.header, r)) = 0
                            THEN "session_insert" ELSE "session_update"]

\* stats.py:55-62: the INSERT of a new session; session_id is UNIQUE
\* (database.py:64).
SessionInsert(sessions, req) ==
    IF FirstSession(sessions, req.sid) # 0
    THEN Raise("IntegrityError", Msg("UNIQUE constraint failed: user_sessions.session_id"))
    ELSE [kind |-> "ok",
          rows |-> Append(sessions, [session_id |-> req.sid, user_id |-> req.user_id,
                                     analysis_count |-> 0])]

\* stats.py:63-67: the UPDATE of a session found (last_active is not kept here).
SessionUpdate(sessions, req) ==
    [i \in 1..Len(sessions) |->
        IF sessions[i].session_id = req.sid /\ req.user_id # NoneS
              /\ sessions[i].user_id = NoneS
        THEN [sessions[i] EXCEPT !.user_id = req.user_id]
        ELSE sessions[i]]

\* stats.py:23-37: the INSERT of the analysis record.
LogInsert(records, req, now) ==
    Append(records, [id |-> Len(records) + 1, session_id |-> req.sid,
                     user_id |-> req.user_id, timestamp |-> now,
                     n_points |-> Len(req.predicted), name |-> req.name])

\* stats.py:44-46: the UPDATE that writes the count read before, plus 1.
CountUpdate(sessions, req) ==
    [i \in 1..Len(sessions) |->
        IF sessions[i].session_id = req.sid
        THEN [sessions[i] EXCEPT !.analysis_count = req.count + 1]
        ELSE sessions[i]]

\* stats.py:75-77: count of the records of a user.
TotalAnalyses(records, user_id) ==
    Cardinality({i \in 1..Len(records) : records[i].user_id = user_id})

\* stats.py:183-186: the rows the filters of get_analysis_history keep, as positions.
HistoryRows(records, user_id, session_id) ==
    {i \in 1..Len(records) :
        /\ user_id # NoneS => records[i].user_id = user_id
        /\ session_id # NoneS => records[i].session_id = session_id}

\* The reverse order, asc(AnalysisRecord.timestamp).
AscTimestamp(a, b) == a.timestamp <= b.timestamp

\* desc(AnalysisRecord.timestamp): a may come before b.
DescTimestamp(a, b) == a.timestamp >= b.timestamp

\* stats.py:188: order_by(desc(timestamp)).limit(limit).all() for limit >= 0: every
\* list the database may return; rows of equal timestamp come in any order.
HistoryResults(records, rows, limit) ==
    LET n == Cardinality(rows)
        k == IF limit < n THEN limit ELSE n
    IN  { [j \in 1..k |-> records[ord[j]]] :
            ord \in {o \in [1..n -> rows] :
                        /\ \A a, b \in 1..n : a # b => o[a] # o[b]
                        /\ \A a, b \in 1..n :
                              a < b => DescTimestamp(records[o[a]], records[o[b]])} }

ApInit ==
    /\ dbRecords = <<>>
    /\ dbSessions = <<>>
    /\ apReqs = <<>>
    /\ apNow = 0
    /\ apGet = [kind |-> "none"]
    /\ EmIdle /\ BaIdle /\ CrIdle /\ TsIdle /\ ExIdle
    /\ SeIdle /\ CaIdle /\ UpIdle

ApOthers == <<emVars, baVars, crVars, tsVars, exVars, seVars, caVars, upVars>>

NewRequest(body, user_id, header, r) ==
    [predicted |-> body.predicted, target |-> body.target, user_id |-> user_id,
     header |-> header, name |-> "run" \o ToString(r),
     pc |-> "start", resp |-> NoResp, sid |-> "", count |-> 0]

\* A POST to /api/v1/analyze arrives and runs to the query of
\* get_or_create_session, or to its error response. (In every step that is not a
\* GET request, the response of the last GET request has been delivered: apGet is
\* cleared.)
ApBegin ==
    /\ Len(apReqs) < MaxReqs
    /\ Cardinality({r \in 1..Len(apReqs) : apReqs[r].pc # "done"}) < Cardinality(ApWorkers)
    /\ \E body \in ApBodies, user_id \in ApUsers, header \in ApHeaders :
          apReqs' = Append(apReqs,
                           AnalyzeBegin(NewRequest(body, user_id, header, Len(apReqs) + 1),
                                        Len(apReqs) + 1, dbSessions,
                                        ValidateLengths(body.predicted, body.target),
                                        compute_error_metrics(body.predicted, body.target)))
    /\ UNCHANGED <<dbRecords, dbSessions, apNow>>
    /\ apGet' = [kind |-> "none"]
    /\ UNCHANGED ApOthers

\* get_or_create_session commits the new session; IntegrityError ends the request.
ApSessionInsert ==
    /\ \E r \in 1..Len(apReqs) :
          /\ apReqs[r].pc = "session_insert"
          /\ IF SessionInsert(dbSessions, apReqs[r]).kind = "raise"
             THEN /\ apReqs' = [apReqs EXCEPT
                                   ![r].pc = "done",
                                   ![r].resp = ExceptClause(SessionInsert(dbSessions, apReqs[r]))]
                  /\ UNCHANGED dbSessions
             ELSE /\ apReqs' = [apReqs EXCEPT ![r].pc = "log"]
                  /\ dbSessions' = SessionInsert(dbSessions, apReqs[r]).rows
    /\ UNCHANGED <<dbRecords, apNow>>
    /\ apGet' = [kind |-> "none"]
    /\ UNCHANGED ApOthers

\* get_or_create_session commits the update of the session it found.
ApSessionUpdate ==
    /\ \E r \in 1..Len(apReqs) :
          /\ apReqs[r].pc = "session_update"
          /\ apReqs' = [apReqs EXCEPT ![r].pc = "log"]
          /\ dbSessions' = SessionUpdate(dbSessions, apReqs[r])
    /\ UNCHANGED <<dbRecords, apNow>>
    /\ apGet' = [kind |-> "none"]
    /\ UNCHANGED ApOthers

\* log_analysis commits the record, stamped with the reading of the clock (the
\* last reading or a later one), and reads the session and its count.
ApLog ==
    /\ \E r \in 1..Len(apReqs), now \in {apNow, apNow + 1} :
          /\ apReqs[r].pc = "log"
          /\ apNow' = now
          /\ dbRecords' = LogInsert(dbRecords, apReqs[r], now)
          /\ apReqs' =
                IF FirstSession(dbSessions, apReqs[r].sid) = 0
                THEN [apReqs EXCEPT ![r].pc = "done", ![r].resp = OkResp]
                ELSE [apReqs EXCEPT
                         ![r].pc = "count",
                         ![r].count =
                            dbSessions[FirstSession(dbSessions, apReqs[r].sid)].analysis_count]
    /\ UNCHANGED dbSessions
    /\ apGet' = [kind |-> "none"]
    /\ UNCHANGED ApOthers

\* log_analysis commits the count and the handler returns the response.
ApCount ==
    /\ \E r \in 1..Len(apReqs) :
          /\ apReqs[r].pc = "count"
          /\ dbSessions' = CountUpdate(dbSessions, apReqs[r])
          /\ apReqs' = [apReqs EXCEPT ![r].pc = "done", ![r].resp = OkResp]
    /\ UNCHANGED <<dbRecords, apNow>>
    /\ apGet' = [kind |-> "none"]
    /\ UNCHANGED ApOthers

\* GET /api/v1/history with a user_id and a limit (of two GET requests with no
\* step between them, the second sees what the first saw: one is taken).
ApHistory ==
    /\ apGet.kind = "none"
    /\ \E user_id \in ApUsers \ {NoneS}, limit \in 0..MaxHistory :
          \E resp \in HistoryResults(dbRecords, HistoryRows(dbRecords, user_id, NoneS), limit) :
             apGet' = [kind |-> "history", user_id |-> user_id, limit |-> limit,
                       at |-> Len(dbRecords), resp |-> resp, total_analyses |-> 0]
    /\ UNCHANGED <<dbRecords, dbSessions, apReqs, apNow>>
    /\ UNCHANGED ApOthers

\* GET /api/v1/stats/user/{user_id}.
ApUserStats ==
    /\ apGet.kind = "none"
    /\ \E user_id \in ApUsers \ {NoneS} :
          apGet' = [kind |-> "stats", user_id |-> user_id, limit |-> 0,
                    at |-> Len(dbRecords), resp |-> <<>>,
                    total_analyses |-> TotalAnalyses(dbRecords, user_id)]
    /\ UNCHANGED <<dbRecords, dbSessions, apReqs, apNow>>
    /\ UNCHANGED ApOthers

ApNext ==
    \/ ApBegin \/ ApSessionInsert \/ ApSessionUpdate \/ ApLog \/ ApCount
    \/ ApHistory \/ ApUserStats

SpecApi == ApInit /\ [][ApNext]_vars

----------------------------------------------------------------------------
(* Properties of the service (SpecApi) *)

LengthsDiffer(req) == Len(req.predicted) # Len(req.target)

Answered200(req) == req.pc = "done" /\ req.resp.status = 200

Quiescent == \A r \in 1..Len(apReqs) : apReqs[r].pc = "done"

\* 'mismatch' in detail.lower()
MentionsMismatch(detail) == detail.text = MsgLengthMismatch(0, 0).text

RecordsOf(records, user_id) == {i \in 1..Len(records) : records[i].user_id = user_id}

\* What C24 says of counts and of the size and filter of a history response.
CountsAndLimit ==
    /\ \A r \in 1..Len(apReqs) :
          Cardinality({i \in 1..Len(dbRecords) : dbRecords[i].name = apReqs[r].name})
             = IF Answered200(apReqs[r]) THEN 1
               ELSE IF apReqs[r].pc = "count" THEN 1 ELSE 0
    /\ Quiescent
          => \A u \in ApUsers :
                TotalAnalyses(dbRecords, u)
                   = Cardinality({r \in 1..Len(apReqs) :
                                     Answered200(apReqs[r]) /\ apReqs[r].user_id = u})
    /\ apGet.kind = "stats"
          => apGet.total_analyses = Cardinality(RecordsOf(dbRecords, apGet.user_id))
    /\ apGet.kind = "history"
          => /\ Len(apGet.resp) <= apGet.limit
             /\ Len(apGet.resp) = IF apGet.limit < Cardinality(RecordsOf(dbRecords, apGet.user_id))
                                  THEN apGet.limit
                                  ELSE Cardinality(RecordsOf(dbRecords, apGet.user_id))
             /\ \A j \in 1..Len(apGet.resp) :
                   /\ apGet.resp[j].user_id = apGet.user_id
                   /\ dbRecords[apGet.resp[j].id] = apGet.resp[j]
             /\ \A j, k \in 1..Len(apGet.resp) : j # k => apGet.resp[j].id # apGet.resp[k].id

C30_SessionCountExact ==
    Quiescent
        => \A r \in 1..Len(apReqs) :
              (apReqs[r].header # NoneS /\ ~LengthsDiffer(apReqs[r]))
                 => /\ Answered200(apReqs[r])
                    /\ Cardinality({i \in 1..Len(dbSessions) :
                                       dbSessions[i].session_id = apReqs[r].header}) = 1
                    /\ \A i \in 1..Len(dbSessions) :
                          dbSessions[i].session_id = apReqs[r].header
                             => dbSessions[i].analysis_count
                                   = Cardinality({k \in 1..Len(dbRecords) :
                                                     dbRecords[k].session_id = apReqs[r].header})

----------------------------------------------------------------------------
(* upload.py: stream_csv_file and parse_csv_columns. A file is a sequence of
   bytes; "C3" and "A9" are the two bytes of one UTF-8 character, "<e9>". *)

MaxPieces == 3      \* pieces a file is made of
MaxChunk == 3       \* largest chunk_size tried besides the default

DefaultChunk == 8192    \* stream_csv_file(file, chunk_size: int = 8192)

\* bytes.decode('utf-8', errors='ignore') of bytes b from position i on: a lead
\* byte without its continuation byte, and a continuation byte without its lead
\* byte, are dropped.
RECURSIVE DecodeFrom(_, _)
DecodeFrom(b, i) ==
    IF i > Len(b) THEN <<>>
    ELSE IF b[i] = "C3"
    THEN IF i < Len(b) /\ b[i + 1] = "A9"
         THEN <<"<e9>">> \o DecodeFrom(b, i + 2)
         ELSE DecodeFrom(b, i + 1)
    ELSE IF b[i] = "A9" THEN DecodeFrom(b, i + 1)
    ELSE <<b[i]>> \o DecodeFrom(b, i + 1)

Decode(b) == DecodeFrom(b, 1)

\* str.split(sep) of the characters s from position i on, cur the piece begun.
RECURSIVE SplitFrom(_, _, _, _)
SplitFrom(s, sep, i, cur) ==
    IF i > Len(s) THEN <<cur>>
    ELSE IF s[i] = sep THEN <<cur>> \o SplitFrom(s, sep, i + 1, <<>>)
    ELSE SplitFrom(s, sep, i + 1, Append(cur, s[i]))

Split(s, sep) == SplitFrom(s, sep, 1, <<>>)

Whitespace == {" ", "\t", "\r"}

\* line.strip() is not empty.
NonBlank(line) == \E i \in 1..Len(line) : line[i] \notin Whitespace

\* The row csv.reader([line]) yields for a line without quotes.
CsvRow(line) == Split(line, ",")

\* Lines 52-57: the rows of the complete lines.
RECURSIVE RowsOfLines(_)
RowsOfLines(lines) ==
    IF lines = <<>> THEN <<>>
    ELSE (IF NonBlank(Head(lines)) THEN <<CsvRow(Head(lines))>> ELSE <<>>)
         \o RowsOfLines(Tail(lines))

ChunkAt(file, pos, chunk_size) ==
    SubSeq(file, pos, IF pos + chunk_size - 1 < Len(file) THEN pos + chunk_size - 1 ELSE Len(file))

\* Lines 39-63: the loop of stream_csv_file from byte pos on.
RECURSIVE StreamLoop(_, _, _, _, _)
StreamStep(file, pos, chunk_size, rows, lines) ==
    StreamLoop(file, pos + chunk_size, chunk_size, lines[Len(lines)],
               rows \o RowsOfLines(SubSeq(lines, 1, Len(lines) - 1)))

StreamLoop(file, pos, chunk_size, buffer, rows) ==
    IF pos > Len(file)
    THEN IF NonBlank(buffer) THEN Append(rows, CsvRow(buffer)) ELSE rows
    ELSE StreamStep(file, pos, chunk_size, rows,
                    Split(buffer \o Decode(ChunkAt(file, pos, chunk_size)), "\n"))

\* stream_csv_file(file, chunk_size): the rows it yields.
stream_csv_file(file, chunk_size) == StreamLoop(file, 1, chunk_size, <<>>, <<>>)

Digits == {"0", "1", "2", "3", "4"}

DigitVal(c) == CHOOSE d \in 0..4 : ToString(d) = c

RECURSIVE DecimalVal(_)
DecimalVal(s) ==
    IF s = <<>> THEN 0 ELSE 10 * DecimalVal(SubSeq(s, 1, Len(s) - 1)) + DigitVal(s[Len(s)])

RECURSIVE Strip(_)
Strip(s) ==
    IF s = <<>> THEN s
    ELSE IF Head(s) \in Whitespace THEN Strip(Tail(s))
    ELSE IF s[Len(s)] \in Whitespace THEN Strip(SubSeq(s, 1, Len(s) - 1))
    ELSE s

\* float(text) of the texts that occur: digits, "inf", "nan"; anything else is a
\* ValueError.
FloatOfStripped(s) ==
    IF s # <<>> /\ \A i \in 1..Len(s) : s[i] \in Digits
    THEN [kind |-> "ok", value |-> F(DecimalVal(s))]
    ELSE IF s = <<"i", "n", "f">> THEN [kind |-> "ok", value |-> PInf]
    ELSE IF s = <<"n", "a", "n">> THEN [kind |-> "ok", value |-> NaN]
    ELSE Raise("ValueError", [text |-> "could not convert string to float", args |-> s])

PyFloat(text) == FloatOfStripped(Strip(text))

MaxCol(args) == IF args.predicted_col > args.target_col THEN args.predicted_col ELSE args.target_col

\* Lines 105-111: the two values of a row, or the ValueError.
RowValues(row, args) ==
    IF Len(row) <= MaxCol(args)
    THEN Raise("ValueError", [text |-> "Row has {len(row)} columns, need at least {n}",
                              args |-> <<Len(row), MaxCol(args) + 1>>])
    ELSE IF PyFloat(row[args.predicted_col + 1]).kind = "raise"
    THEN PyFloat(row[args.predicted_col + 1])
    ELSE IF PyFloat(row[args.target_col + 1]).kind = "raise"
    THEN PyFloat(row[args.target_col + 1])
    ELSE [kind |-> "ok", pred |-> PyFloat(row[args.predicted_col + 1]).value,
          target |-> PyFloat(row[args.target_col + 1]).value]

\* Line 102: if max_rows and row_count >= max_rows.
MaxRowsReached(max_rows, row_count) ==
    max_rows.some /\ max_rows.val # 0 /\ row_count >= max_rows.val

ParseResult(st) ==
    [kind |-> "ok", predicted |-> st.predicted, target |-> st.target,
     metadata |-> [total_rows |-> st.row_count, skipped_rows |-> st.skipped_rows,
                   error_count |-> Len(st.errors),
                   errors |-> SubSeq(st.errors, 1,
                                     IF Len(st.errors) < 10 THEN Len(st.errors) ELSE 10)]]

\* Lines 96-131: the loop of parse_csv_columns from row row_idx (0-based) on.
RECURSIVE ParseLoop(_, _, _, _)
ParseRow(rows, row_idx, args, st, v) ==
    IF v.kind = "raise"
    THEN IF Len(st.errors) + 1 > 100
         THEN ParseResult([st EXCEPT !.skipped_rows = @ + 1,
                                     !.errors = Append(@, [row |-> row_idx + 1, error |-> v.msg,
                                                           data |-> rows[row_idx + 1]])])
         ELSE ParseLoop(rows, row_idx + 1, args,
                        [st EXCEPT !.skipped_rows = @ + 1,
                                   !.errors = Append(@, [row |-> row_idx + 1, error |-> v.msg,
                                                         data |-> rows[row_idx + 1]])])
    ELSE IF IsFinite(v.pred) /\ IsFinite(v.target)
    THEN ParseLoop(rows, row_idx + 1, args,
                   [st EXCEPT !.predicted = Append(@, v.pred), !.target = Append(@, v.target),
                              !.row_count = @ + 1])
    ELSE ParseLoop(rows, row_idx + 1, args, [st EXCEPT !.skipped_rows = @ + 1])

ParseLoop(rows, row_idx, args, st) ==
    IF row_idx >= Len(rows) THEN ParseResult(st)
    ELSE IF args.skip_header /\ row_idx = 0 THEN ParseLoop(rows, row_idx + 1, args, st)
    ELSE IF MaxRowsReached(args.max_rows, st.row_count) THEN ParseResult(st)
    ELSE ParseRow(rows, row_idx, args, st, RowValues(rows[row_idx + 1], args))

\* parse_csv_columns(file, predicted_col, target_col, skip_header, max_rows)
parse_csv_columns(file, args) ==
    ParseLoop(stream_csv_file(file, DefaultChunk), 0, args,
              [predicted |-> <<>>, target |-> <<>>, errors |-> <<>>,
               row_count |-> 0, skipped_rows |-> 0])

\* Pieces of files: data rows, a last row without newline, a header, a row with
\* inf, an empty line, a row with a two-byte character, a short row, a blank line.
UpPieces ==
    { <<"1", ",", "2", "\n">>, <<"3", ",", "4">>, <<"x", ",", "y", "\n">>,
      <<"i", "n", "f", ",", "1", "\n">>, <<"\n">>, <<"C3", "A9", ",", "1", "\n">>,
      <<"1", "\n">>, <<" ", "\n">> }

UpFiles == {Flatten(ps) : ps \in SeqsUpTo(UpPieces, MaxPieces)}

UpCalls ==
    { [fn |-> "stream_csv_file", chunk_size |-> c, predicted_col |-> 0, target_col |-> 1,
       skip_header |-> FALSE, max_rows |-> NoneV] : c \in (1..MaxChunk) \cup {DefaultChunk} }
    \cup
    { [fn |-> "parse_csv_columns", chunk_size |-> DefaultChunk, predicted_col |-> 0,
       target_col |-> 1, skip_header |-> h, max_rows |-> m] :
         h \in BOOLEAN, m \in {NoneV} \cup {Some(n) : n \in 0..2} }

UpInit ==
    /\ upFile \in UpFiles
    /\ upArgs \in UpCalls
    /\ upOut = NoResult
    /\ upPc = "call"
    /\ EmIdle /\ BaIdle /\ CrIdle /\ TsIdle /\ ExIdle
    /\ SeIdle /\ CaIdle /\ ApIdle

\* The rows of the file are read with stream_csv_file.
StreamCsvFile ==
    /\ upPc = "call"
    /\ upArgs.fn = "stream_csv_file"
    /\ upOut' = [kind |-> "ok", rows |-> stream_csv_file(upFile, upArgs.chunk_size)]
    /\ upPc' = "done"
    /\ UNCHANGED <<upFile, upArgs>>
    /\ UNCHANGED <<emVars, baVars, crVars, tsVars, exVars, seVars, caVars, apVars>>

\* The file is parsed with parse_csv_columns.
ParseCsvColumns ==
    /\ upPc = "call"
    /\ upArgs.fn = "parse_csv_columns"
    /\ upOut' = parse_csv_columns(upFile, upArgs)
    /\ upPc' = "done"
    /\ UNCHANGED <<upFile, upArgs>>
    /\ UNCHANGED <<emVars, baVars, crVars, tsVars, exVars, seVars, caVars, apVars>>

UpNext == StreamCsvFile \/ ParseCsvColumns

SpecUpload == UpInit /\ [][UpNext]_vars

----------------------------------------------------------------------------
(* Properties of the upload functions (SpecUpload) *)

\* The rows of the non-blank lines of the whole file, in file order.
RowsOfFile(file) == RowsOfLines(Split(Decode(file), "\n"))

DataRows(file, args) ==
    IF args.skip_header /\ RowsOfFile(file) # <<>> THEN Tail(RowsOfFile(file))
    ELSE RowsOfFile(file)

BothFinite(row, args) ==
    /\ RowValues(row, args).kind = "ok"
    /\ IsFinite(RowValues(row, args).pred)
    /\ IsFinite(RowValues(row, args).target)

FiniteRows(file, args) == SelectSeq(DataRows(file, args), LAMBDA row : BothFinite(row, args))

\* C28: parse_csv_columns returns predicted and target of equal length, which is
\* metadata.total_rows, holding the values of the first total_rows rows whose two
\* values are finite numbers, in file order; with max_rows given (0 too) no more
\* than max_rows of them; the first row is skipped only with skip_header; every
\* other row is counted in skipped_rows; at most 10 errors are returned.
C28_ParsedColumns ==
    (upPc = "done" /\ upArgs.fn = "parse_csv_columns")
        => /\ Len(upOut.predicted) = upOut.metadata.total_rows
           /\ Len(upOut.target) = upOut.metadata.total_rows
           /\ upOut.metadata.total_rows <= Len(FiniteRows(upFile, upArgs))
           /\ \A i \in 1..Len(upOut.predicted) :
                 /\ i <= Len(FiniteRows(upFile, upArgs))
                 /\ upOut.predicted[i] = RowValues(FiniteRows(upFile, upArgs)[i], upArgs).pred
                 /\ upOut.target[i] = RowValues(FiniteRows(upFile, upArgs)[i], upArgs).target
           /\ upArgs.max_rows.some => Len(upOut.predicted) <= upArgs.max_rows.val
           /\ ~upArgs.max_rows.some
                 => upOut.metadata.total_rows = Len(FiniteRows(upFile, upArgs))
           /\ upOut.metadata.skipped_rows
                 = Len(DataRows(upFile, upArgs)) - upOut.metadata.total_rows
           /\ Len(upOut.metadata.errors) <= 10

\* C29: for every chunk_size >= 1 stream_csv_file yields the rows of the non-blank
\* lines of the file, each once and in file order, the same as with the default
\* chunk_size.
C29_ChunkSizeIndependent ==
    (upPc = "done" /\ upArgs.fn = "stream_csv_file")
        => /\ upOut.rows = RowsOfFile(upFile)
           /\ upOut.rows = stream_csv_file(upFile, DefaultChunk)

=============================================================================
